---------------------------- MODULE Spec2Model ----------------------------
(***************************************************************************)
(* A model of the hypergres PostgreSQL provider: the query compiler        *)
(* (src/provider/postgresql/queryBuilders.ts and queryHelpers.ts), schema  *)
(* discovery (discovery.ts, PostgreSQL.discover) and JSON Schema synthesis *)
(* (discovery/schema.ts).                                                  *)
(*                                                                         *)
(* A statement is modelled the way the squel query builder holds it: a     *)
(* record of blocks (WITH, fields, joins, WHERE, ...) that toParam renders *)
(* to a text and a list of bound values.  A text is a sequence of tokens   *)
(* (strings); "?" is squel's parameter character, "(" and ")" are tokens   *)
(* of their own, so that squel's bracket scan can be modelled token by     *)
(* token.                                                                  *)
(***************************************************************************)
EXTENDS Integers, Sequences, FiniteSets, TLC

VARIABLES
  engine,   \* the Array.prototype.sort of the JavaScript engine running the code
  q,        \* the Query object the caller holds (compile operations receive it by reference)
  q0,       \* the same Query as the caller constructed it
  hist,     \* the compile calls made on q so far, oldest first: the builder
            \* function called and the statement builder it returned
  revision,   \* the revision of discovery.ts the provider runs
  discovery,  \* config.discovery: the list of discovery Configs
  catalog,    \* the tables and views of the database, in the order it lists them
  inspects,   \* the inspect calls discover has made
  discovered, \* the promise discover returned
  tableColumns,   \* the Columns of the table a schema is synthesized for
  schemaOptions,  \* the Options of the synthesis
  document,       \* the Schema synthesized, undefined before
  driver,     \* the calls the Provider has made on a context of the driver
  operation,  \* the Provider operation called: its name, the context it was
              \* passed and what it returned
  core,       \* the Core: whether it has a config, its sources, and the
              \* sources start() has seen
  configures  \* the configure calls made on the Core, oldest first

queryVars == <<engine, q, q0, hist>>
discoveryVars == <<revision, discovery, catalog, inspects, discovered>>
schemaVars == <<tableColumns, schemaOptions, document>>
providerVars == <<driver, operation>>
coreVars == <<core, configures>>
vars == <<engine, q, q0, hist, revision, discovery, catalog, inspects, discovered,
          tableColumns, schemaOptions, document, driver, operation, core, configures>>

-----------------------------------------------------------------------------
(* Bounds of the model *)

MaxCompiles == 2     \* compile calls made on one Query object
MaxJoins == 2        \* entries of q.joins
MaxCondNodes == 3    \* nodes of the condition forest q.conditions
MaxPageSize == 3     \* q.page.size
MaxPageNumber == 3   \* q.page.number
MaxArrayLen == 2     \* elements of an array value of q.data
MaxConfigs == 2      \* entries of config.discovery
MaxColumns == 3      \* columns of a table
MaxConstraints == 2  \* CHECK constraints of a column

-----------------------------------------------------------------------------
(* JavaScript values.  Every value is a record with the same fields:       *)
(*   t    "string", "number", "boolean", "null", "undefined", "object",    *)
(*        "array", or "select" (a squel SELECT builder);                    *)
(*   s    the literal of a scalar; the selected field of a builder;        *)
(*   a    the table a builder selects from;                                *)
(*   kids the properties of an object or array, in insertion order, as     *)
(*        <<key, value>> pairs.                                            *)

Scalar(t, s) == [t |-> t, s |-> s, a |-> "", kids |-> <<>>]
Str(s) == Scalar("string", s)
Num(s) == Scalar("number", s)
Bool(s) == Scalar("boolean", s)
Null == Scalar("null", "null")
Undefined == Scalar("undefined", "undefined")
Obj(kids) == [t |-> "object", s |-> "", a |-> "", kids |-> kids]
Arr(kids) == [t |-> "array", s |-> "", a |-> "", kids |-> kids]

\* squel.select().from(alias).field(to)
NestedSelect(alias, to) == [t |-> "select", s |-> to, a |-> alias, kids |-> <<>>]

\* JavaScript's typeof
TypeOf(v) ==
  IF v.t \in {"null", "object", "array", "select"} THEN "object" ELSE v.t

\* obj == null
IsNil(v) == v.t \in {"null", "undefined"}

HasKey(v, k) == \E i \in 1..Len(v.kids) : v.kids[i][1] = k

KeyIndex(v, k) == CHOOSE i \in 1..Len(v.kids) : v.kids[i][1] = k

\* obj[k]
Get(v, k) ==
  IF v.t \in {"object", "array"} /\ HasKey(v, k)
  THEN v.kids[KeyIndex(v, k)][2]
  ELSE Undefined

\* ramda's path(paths, obj)
RECURSIVE Path(_, _)
Path(p, obj) ==
  IF p = <<>> THEN obj
  ELSE IF IsNil(obj) THEN Undefined
  ELSE Path(Tail(p), Get(obj, Head(p)))

\* ramda's assoc(prop, val, obj): a shallow copy of obj's enumerable
\* properties into a new plain object, with prop set.  The copy of a squel
\* builder is a plain object: the builder's methods (_toParamString among
\* them) are not enumerable and are lost.
Assoc(k, val, obj) ==
  LET props == IF obj.t \in {"object", "array"} THEN obj.kids
               ELSE IF obj.t = "select"
                    THEN << <<"blocks", Str(obj.a)>> >>
                    ELSE <<>>
      base == Obj(props)
  IN IF HasKey(base, k)
     THEN Obj([props EXCEPT ![KeyIndex(base, k)] = <<k, val>>])
     ELSE Obj(Append(props, <<k, val>>))

\* ramda's assocPath(path, val, obj); path segments are strings
RECURSIVE AssocPath(_, _, _)
AssocPath(p, val, obj) ==
  IF p = <<>> THEN val
  ELSE IF Len(p) > 1
  THEN LET nextObj == IF ~IsNil(obj) /\ obj.t \in {"object", "array"} /\ HasKey(obj, Head(p))
                      THEN Get(obj, Head(p)) ELSE Obj(<<>>)
       IN Assoc(Head(p), AssocPath(Tail(p), val, nextObj), obj)
  ELSE Assoc(Head(p), val, obj)

-----------------------------------------------------------------------------
(* Array.prototype.sort.  ECMAScript leaves the result of a sort whose     *)
(* comparator is not a consistent ordering to the implementation; the      *)
(* package runs on node >= 8 (package.json "engines"), which covers both   *)
(* of V8's algorithms for short arrays.                                    *)

Engines == {"insertion", "timsort"}

\* the comparator handed to q.joins.sort: `join => join.path.length`
\* (its second argument is not declared and so ignored)
JoinCompare(x, y) == Len(x.path)

\* V8 before 7.0 (node 8, 10), arrays of up to 10 elements: InsertionSort.
\*   for i: element = a[i]; for j = i-1 down: tmp = a[j];
\*     if comparefn(tmp, element) > 0 then a[j+1] = tmp else break;
\*   a[j+1] = element
RECURSIVE ShiftUp(_, _, _)
ShiftUp(a, j, element) ==
  IF j >= 1 /\ JoinCompare(a[j], element) > 0
  THEN ShiftUp([a EXCEPT ![j + 1] = a[j]], j - 1, element)
  ELSE [a EXCEPT ![j + 1] = element]

RECURSIVE InsertionSortFrom(_, _)
InsertionSortFrom(a, i) ==
  IF i > Len(a) THEN a
  ELSE InsertionSortFrom(ShiftUp(a, i - 1, a[i]), i + 1)

InsertionSort(a) == InsertionSortFrom(a, 2)

\* V8 from 7.0 (node >= 11): TimSort; an array shorter than 64 elements is
\* one run: CountAndMakeRun, then BinaryInsertionSort of what follows the run.
RECURSIVE RunLength(_, _, _)
RunLength(a, idx, descending) ==
  IF idx > Len(a) THEN idx - 1
  ELSE LET order == JoinCompare(a[idx], a[idx - 1])
       IN IF (descending /\ order >= 0) \/ (~descending /\ order < 0)
          THEN idx - 1
          ELSE RunLength(a, idx + 1, descending)

Reverse(s) == [i \in 1..Len(s) |-> s[Len(s) + 1 - i]]

RECURSIVE BinarySearch(_, _, _, _)
BinarySearch(a, pivot, left, right) ==
  IF left >= right THEN left
  ELSE LET mid == left + ((right - left) \div 2)
       IN IF JoinCompare(pivot, a[mid]) < 0
          THEN BinarySearch(a, pivot, left, mid)
          ELSE BinarySearch(a, pivot, mid + 1, right)

RECURSIVE BinaryInsertionSort(_, _)
BinaryInsertionSort(a, start) ==
  IF start > Len(a) THEN a
  ELSE LET pivot == a[start]
           left == BinarySearch(a, pivot, 1, start)
           moved == [i \in 1..Len(a) |->
                      IF i < left \/ i > start THEN a[i]
                      ELSE IF i = left THEN pivot ELSE a[i - 1]]
       IN BinaryInsertionSort(moved, start + 1)

TimSort(a) ==
  IF Len(a) < 2 THEN a
  ELSE LET descending == JoinCompare(a[2], a[1]) < 0
           run == RunLength(a, 3, descending)
           made == IF descending
                   THEN Reverse(SubSeq(a, 1, run)) \o SubSeq(a, run + 1, Len(a))
                   ELSE a
       IN BinaryInsertionSort(made, run + 1)

\* q.joins.sort(join => join.path.length): sorts q.joins in place
SortJoins(e, joins) ==
  IF e = "insertion" THEN InsertionSort(joins) ELSE TimSort(joins)

-----------------------------------------------------------------------------
(* Strings *)

\* Acts as a separator in the alias of a join (the source has the Greek
\* capital delta; any separator outside the identifiers serves)
JOIN_MARKER == "^"

Digit(d) == <<"0", "1", "2", "3", "4", "5", "6", "7", "8", "9">>[d + 1]

\* Number.prototype.toString of a natural number
RECURSIVE NumStr(_)
NumStr(n) == IF n < 10 THEN Digit(n) ELSE NumStr(n \div 10) \o Digit(n % 10)

\* Array.prototype.join of an array of strings
RECURSIVE JoinStr(_, _)
JoinStr(segs, sep) ==
  IF segs = <<>> THEN ""
  ELSE IF Len(segs) = 1 THEN segs[1]
  ELSE segs[1] \o sep \o JoinStr(Tail(segs), sep)

\* the concatenation of a sequence of sequences
RECURSIVE Flatten(_)
Flatten(ss) == IF ss = <<>> THEN <<>> ELSE Head(ss) \o Flatten(Tail(ss))

\* the token sequences of parts, with the tokens of sep between them
RECURSIVE JoinTokens(_, _)
JoinTokens(parts, sep) ==
  IF parts = <<>> THEN <<>>
  ELSE IF Len(parts) = 1 THEN parts[1]
  ELSE parts[1] \o sep \o JoinTokens(Tail(parts), sep)

-----------------------------------------------------------------------------
(* squel: rendering.  A rendered fragment is a text and its bound values;  *)
(* err is "" or the name of the error thrown while building or rendering.  *)

Rendered(text, values) == [text |-> text, values |-> values]

\* the scan of _applyNestingFormatting: does the bracket opened by the first
\* character close only at the last one?  idx runs over the characters
\* strictly between the first and the last.
RECURSIVE BracketsEnclose(_, _, _)
BracketsEnclose(str, idx, open) ==
  IF idx >= Len(str) THEN TRUE
  ELSE IF str[idx] = "(" THEN BracketsEnclose(str, idx + 1, open + 1)
  ELSE IF str[idx] = ")"
       THEN IF open - 1 < 1 THEN FALSE
            ELSE BracketsEnclose(str, idx + 1, open - 1)
  ELSE BracketsEnclose(str, idx + 1, open)

\* squel's _applyNestingFormatting(str, nesting): brackets around a
\* non-empty string unless one pair already encloses all of it
ApplyNestingFormatting(str, nesting) ==
  IF str # <<>> /\ nesting
  THEN IF str[1] = "(" /\ str[Len(str)] = ")" /\ BracketsEnclose(str, 2, 1)
       THEN str
       ELSE <<"(">> \o str \o <<")">>
  ELSE str

\* a builder made by squel.select().from(a).field(s), rendered nested
NestedSelectString(v) ==
  Rendered(ApplyNestingFormatting(<<"SELECT", v.s, "FROM", v.a>>, TRUE), <<>>)

\* what one parameter character becomes for the value bound to it
\* (squel's _buildString, building parameterized): a builder is rendered in
\* place; an array becomes a bracketed list of one parameter per element
\* (_formatValueForParamArray leaves an array an array; the Array value
\* handler is the identity); any other value is bound as it is.
ParamString(value) ==
  IF value.t = "select" THEN NestedSelectString(value)
  ELSE IF value.t = "array"
  THEN Rendered(<<"(">> \o JoinTokens([i \in 1..Len(value.kids) |-> <<"?">>], <<",">>) \o <<")">>,
                [i \in 1..Len(value.kids) |-> value.kids[i][2]])
  ELSE Rendered(<<"?">>, <<value>>)

\* squel's _buildString(str, values): each parameter character of str takes
\* the next of values (undefined when they have run out)
RECURSIVE BuildStringFrom(_, _, _)
BuildStringFrom(str, values, acc) ==
  IF str = <<>> THEN acc
  ELSE IF Head(str) = "?"
  THEN LET value == IF values = <<>> THEN Undefined ELSE Head(values)
           ret == ParamString(value)
       IN BuildStringFrom(Tail(str), IF values = <<>> THEN <<>> ELSE Tail(values),
                          Rendered(acc.text \o ret.text, acc.values \o ret.values))
  ELSE BuildStringFrom(Tail(str), values, Rendered(Append(acc.text, Head(str)), acc.values))

BuildString(str, values, nested) ==
  LET ret == BuildStringFrom(str, values, Rendered(<<>>, <<>>))
  IN Rendered(ApplyNestingFormatting(ret.text, nested), ret.values)

\* the numbered parameters of the postgres flavour: the parameter characters
\* of a finished statement become $1, $2, ... in order of appearance
NumberParams(text, n) ==
  [k \in 1..Len(text) |->
     IF text[k] = "?"
     THEN "$" \o NumStr(n + Cardinality({j \in 1..(k - 1) : text[j] = "?"}))
     ELSE text[k]]

-----------------------------------------------------------------------------
(* Conditions (src/query.ts) and squel expressions *)

\* an operator that was not given
NoOperator == "undefined"

CondAnd(kids) == [t |-> "and", kids |-> kids, field |-> "", op |-> "",
                  value |-> Undefined, frag |-> <<>>, vals |-> <<>>]
CondOr(kids) == [t |-> "or", kids |-> kids, field |-> "", op |-> "",
                 value |-> Undefined, frag |-> <<>>, vals |-> <<>>]
CondRaw(frag, vals) == [t |-> "raw", kids |-> <<>>, field |-> "", op |-> "",
                        value |-> Undefined, frag |-> frag, vals |-> vals]
CondTerm(field, op, value) == [t |-> "term", kids |-> <<>>, field |-> field, op |-> op,
                               value |-> value, frag |-> <<>>, vals |-> <<>>]

\* a node of a squel expression: .and(expr, ...para) / .or(expr, ...para),
\* where expr is a string or another expression
StringNode(type, str, para) ==
  [type |-> type, builder |-> FALSE, nodes |-> <<>>, str |-> str, para |-> para]
BuilderNode(type, expr) ==
  [type |-> type, builder |-> TRUE, nodes |-> expr, str |-> <<>>, para |-> <<>>]

\* Adds a WHERE term for each condition in a query: the squel expression of
\* one condition (the sequence of its nodes)
RECURSIVE addQueryCondition(_, _)
addQueryCondition(source, condition) ==
  IF condition.t = "and"
  THEN [i \in 1..Len(condition.kids) |->
          BuilderNode("AND", addQueryCondition(source, condition.kids[i]))]
  ELSE IF condition.t = "or"
  THEN [i \in 1..Len(condition.kids) |->
          BuilderNode("OR", addQueryCondition(source, condition.kids[i]))]
  ELSE IF condition.t = "raw"
  THEN <<StringNode("AND", condition.frag, condition.vals)>>
  ELSE LET operator == IF condition.op = NoOperator THEN "=" ELSE condition.op
       IN <<StringNode("AND", <<source \o "." \o condition.field, operator, "?">>,
                       <<condition.value>>)>>

\* squel's Expression._toParamString: the nodes' texts joined by the type of
\* each node but the first; a node that is an expression is rendered nested
RECURSIVE ExpressionString(_, _)
ExpressionString(nodes, nested) ==
  LET part(i) == IF nodes[i].builder
                 THEN ExpressionString(nodes[i].nodes, TRUE)
                 ELSE BuildString(nodes[i].str, nodes[i].para, FALSE)
      parts == [i \in 1..Len(nodes) |-> part(i)]
      texts == [i \in 1..Len(nodes) |->
                  IF i = 1 THEN parts[i].text ELSE <<nodes[i].type>> \o parts[i].text]
  IN Rendered(ApplyNestingFormatting(Flatten(texts), nested),
              Flatten([i \in 1..Len(nodes) |-> parts[i].values]))

-----------------------------------------------------------------------------
(* squel: statement builders of the postgres flavour.  One record holds    *)
(* the blocks of every kind of statement; a kind leaves empty the blocks   *)
(* it does not have.                                                       *)
(*   verb       "INSERT", "UPDATE", "SELECT" or "DELETE"                   *)
(*   with       WithBlock: <<[alias, table]>>, table a nested statement    *)
(*   table      the table of into() / table() / from()                     *)
(*   fields, values  the field names and values of setFields()             *)
(*   selects    GetFieldBlock: the selected fields                         *)
(*   joins      JoinBlock: <<[table, alias, condition]>>                   *)
(*   where      WhereBlock: the expressions given to where()               *)
(*   order      OrderByBlock: <<[field, asc]>>                             *)
(*   limit, offset  empty, or the one value set                            *)
(*   returning  ReturningBlock: the field given to returning(), or ""      *)
(*   err        "" or the error thrown while building                      *)

Builder(verb, table) ==
  [verb |-> verb, with |-> <<>>, table |-> table, fields |-> <<>>, values |-> <<>>,
   selects |-> <<>>, joins |-> <<>>, where |-> <<>>, order |-> <<>>,
   limit |-> <<>>, offset |-> <<>>, returning |-> "", err |-> ""]

\* squel's _sanitizeValue: a field value must be a string, number, boolean,
\* null, a builder or of a registered custom type (Array is registered,
\* queryBuilders.ts line 13); _set does not sanitize undefined
ValueAllowed(v) == v.t # "object"

\* squel's setFields(fields): _set(field, fields[field]) for each enumerable
\* property; throws on the first value that is not allowed
setFields(sql, pairs) ==
  IF \E i \in 1..Len(pairs) : ~ValueAllowed(pairs[i][2])
  THEN [sql EXCEPT !.err = "Error"]
  ELSE [sql EXCEPT !.fields = @ \o [i \in 1..Len(pairs) |-> pairs[i][1]],
                   !.values = @ \o [i \in 1..Len(pairs) |-> pairs[i][2]]]

\* addQueryValues without the wrapping of array values
addQueryValues_Unwrapped(sql, data) ==
  IF sql.err # "" THEN sql
  ELSE IF data.t = "null" THEN [sql EXCEPT !.err = "TypeError"]
  ELSE LET d == IF data.t = "undefined" THEN Obj(<<>>) ELSE data
       IN setFields(sql, d.kids)

\* Sets data values for INSERT and UPDATE queries: array values are wrapped
\* in an additional array.  data defaults to {} when undefined; ramda's map
\* throws a TypeError on null.
addQueryValues(sql, data) ==
  IF sql.err # "" THEN sql
  ELSE IF data.t = "null" THEN [sql EXCEPT !.err = "TypeError"]
  ELSE LET d == IF data.t = "undefined" THEN Obj(<<>>) ELSE data
           wrap(v) == IF v.t = "array" THEN Arr(<< <<"0", v>> >>) ELSE v
       IN setFields(sql, [i \in 1..Len(d.kids) |-> <<d.kids[i][1], wrap(d.kids[i][2])>>])

\* the body of the forEach of addQueryJoinCTEs for one join; acc holds the
\* statement and transformedData
JoinCTE(acc, join, data) ==
  LET nestedData == Path(join.path, data)
      alias == JoinStr(join.path, JOIN_MARKER)
      nestedInsert == addQueryValues(
                        [Builder("INSERT", join.source) EXCEPT !.returning = join.to],
                        nestedData)
      nestedSelect == NestedSelect(alias, join.to)
  IN IF acc.sql.err # "" THEN acc
     ELSE IF TypeOf(nestedData) # "object" THEN acc
     ELSE IF nestedInsert.err # ""
          THEN [acc EXCEPT !.sql.err = nestedInsert.err]
          ELSE [sql |-> [acc.sql EXCEPT !.with = Append(@, [alias |-> alias, table |-> nestedInsert])],
                data |-> AssocPath(join.path, nestedSelect, acc.data)]

RECURSIVE JoinCTEs(_, _, _)
JoinCTEs(acc, joins, data) ==
  IF joins = <<>> THEN acc
  ELSE JoinCTEs(JoinCTE(acc, Head(joins), data), Tail(joins), data)

\* Adds Common Table Expressions to a query; yields the statement and the
\* data to use for it.  sorted is q.joins as q.joins.sort(...) has left it.
addQueryJoinCTEs(sql, query, sorted) ==
  IF ~query.hasJoins THEN [sql |-> sql, data |-> query.data]
  ELSE JoinCTEs([sql |-> sql, data |-> query.data], sorted, query.data)

\* squel's field(): a field that is already selected is not added again
AddField(sql, field) ==
  IF \E i \in 1..Len(sql.selects) : sql.selects[i] = field THEN sql
  ELSE [sql EXCEPT !.selects = Append(@, field)]

RECURSIVE AddFields(_, _)
AddFields(sql, fields) ==
  IF fields = <<>> THEN sql ELSE AddFields(AddField(sql, Head(fields)), Tail(fields))

\* Adds columns to a query's SELECT clause based on the `fields` property
addQueryFields(sql, query) ==
  IF ~query.hasFields THEN AddField(sql, query.source \o ".*")
  ELSE AddFields(sql, [i \in 1..Len(query.fields) |->
                         IF query.fields[i].raw THEN query.fields[i].s
                         ELSE query.source \o "." \o query.fields[i].s])

\* slice(0, -1)
ButLast(s) == IF s = <<>> THEN <<>> ELSE SubSeq(s, 1, Len(s) - 1)

\* the body of the forEach of addQueryJoins for one join
\* AddJoin without the test of `counting`: the row is embedded in any case
AddJoin_EmbedsWhenCounting(sql, join, counting) ==
  LET alias == JoinStr(join.path, JOIN_MARKER)
      self == JoinStr(ButLast(join.path), JOIN_MARKER)
      joined == [sql EXCEPT !.joins = Append(@,
                   [table |-> join.source, alias |-> alias,
                    condition |-> <<alias \o "." \o join.to, "=", self \o "." \o join.from>>])]
  IN AddField(joined, "row_to_json(" \o alias \o ".*) AS " \o alias)

AddJoin(sql, join, counting) ==
  LET alias == JoinStr(join.path, JOIN_MARKER)
      self == JoinStr(ButLast(join.path), JOIN_MARKER)
      joined == [sql EXCEPT !.joins = Append(@,
                   [table |-> join.source, alias |-> alias,
                    condition |-> <<alias \o "." \o join.to, "=", self \o "." \o join.from>>])]
  IN IF counting THEN joined
     ELSE AddField(joined, "row_to_json(" \o alias \o ".*) AS " \o alias)

RECURSIVE AddJoins(_, _, _)
AddJoins(sql, joins, counting) ==
  IF joins = <<>> THEN sql
  ELSE AddJoins(AddJoin(sql, Head(joins), counting), Tail(joins), counting)

\* Adds JOIN clauses to a query based on the `joins` property of a query
addQueryJoins(sql, query, counting) ==
  IF ~query.hasJoins THEN sql ELSE AddJoins(sql, query.joins, counting)

\* Adds WHERE clause to a SELECT, UPDATE or DELETE query: one where() call
\* for each entry of query.conditions
addQueryConditions(sql, query) ==
  IF sql.err # "" \/ ~query.hasConditions THEN sql
  ELSE [sql EXCEPT !.where = @ \o [i \in 1..Len(query.conditions) |->
                                     addQueryCondition(query.source, query.conditions[i])]]

\* String.prototype.toLowerCase, on the directions of the model
\* the direction taken as it is spelled
ToLowerCase_AsSpelled(s) == s

ToLowerCase(s) ==
  IF s \in {"asc", "ASC", "Asc", "aSC"} THEN "asc"
  ELSE IF s \in {"desc", "DESC", "Desc", "dEsC"} THEN "desc"
  ELSE s

\* Adds an ORDER BY clause(s) to a query based on the `order` property
addQueryOrder(sql, query) ==
  IF ~query.hasOrder THEN sql
  ELSE [sql EXCEPT !.order = @ \o [i \in 1..Len(query.order) |->
          [field |-> query.order[i].field,
           asc |-> ToLowerCase(query.order[i].direction) = "asc"]]]

\* addQueryPagination with the offset of the page after
addQueryPagination_NextPage(sql, query) ==
  IF ~query.hasPage THEN sql
  ELSE [sql EXCEPT !.limit = <<Num(NumStr(query.page.size))>>,
                   !.offset = <<Num(NumStr(query.page.size * query.page.number))>>]

\* Adds an OFFSET and LIMIT clause to a query based on the `page` property;
\* squel's limit() and offset() throw on a negative number
addQueryPagination(sql, query) ==
  IF ~query.hasPage THEN sql
  ELSE LET size == query.page.size
           offset == query.page.size * (query.page.number - 1)
       IN IF size < 0 \/ offset < 0 THEN [sql EXCEPT !.err = "Error"]
          ELSE [sql EXCEPT !.limit = <<Num(NumStr(size))>>,
                           !.offset = <<Num(NumStr(offset))>>]

\* Creates an `INSERT...` query
createQuery(query, sorted) ==
  LET result == [Builder("INSERT", query.source) EXCEPT
                   !.returning = JoinStr(query.returning, ",")]
      ctes == addQueryJoinCTEs(result, query, sorted)
  IN addQueryValues(ctes.sql, ctes.data)

\* Creates a `SELECT...` query
readQuery(query) ==
  LET result == Builder("SELECT", query.source)
      r1 == addQueryFields(result, query)
      r2 == addQueryJoins(r1, query, FALSE)
      r3 == addQueryConditions(r2, query)
      r4 == addQueryOrder(r3, query)
      r5 == addQueryConditions(r4, query)
  IN addQueryPagination(r5, query)

\* Creates an `UPDATE...` query
updateQuery(query, sorted) ==
  LET result == [Builder("UPDATE", query.source) EXCEPT
                   !.returning = JoinStr(query.returning, ",")]
      ctes == addQueryJoinCTEs(result, query, sorted)
  IN addQueryConditions(addQueryValues(ctes.sql, ctes.data), query)

\* deleteQuery that adds the conditions twice, as readQuery does
deleteQuery_TwiceConditions(query) ==
  addQueryConditions(addQueryConditions(Builder("DELETE", query.source), query), query)

\* Creates a `DELETE...` query
deleteQuery(query) ==
  addQueryConditions(Builder("DELETE", query.source), query)

\* Creates a `SELECT COUNT(*)...` query
countQuery(query) ==
  LET result == AddField(Builder("SELECT", query.source), "COUNT(*)")
  IN addQueryConditions(addQueryJoins(result, query, TRUE), query)

-----------------------------------------------------------------------------
(* squel: toParam.  The text of a statement is the texts of its blocks in  *)
(* the order of the flavour's block list, the empty ones left out.         *)

\* InsertFieldValueBlock: (f1, f2) VALUES (v1, v2)
InsertFieldValueString(sql) ==
  LET parts == [i \in 1..Len(sql.values) |-> BuildString(<<"?">>, <<sql.values[i]>>, FALSE)]
  IN IF sql.fields = <<>> THEN Rendered(<<>>, <<>>)
     ELSE Rendered(<<"(">> \o JoinTokens([i \in 1..Len(sql.fields) |-> <<sql.fields[i]>>], <<",">>)
                     \o <<")", "VALUES", "(">>
                     \o JoinTokens([i \in 1..Len(parts) |-> parts[i].text], <<",">>)
                     \o <<")">>,
                   Flatten([i \in 1..Len(parts) |-> parts[i].values]))

\* SetFieldBlock: SET f1 = v1, f2 = v2
SetFieldString(sql) ==
  LET parts == [i \in 1..Len(sql.values) |->
                  BuildString(<<sql.fields[i], "=", "?">>, <<sql.values[i]>>, FALSE)]
  IN Rendered(<<"SET">> \o JoinTokens([i \in 1..Len(parts) |-> parts[i].text], <<",">>),
              Flatten([i \in 1..Len(parts) |-> parts[i].values]))

\* GetFieldBlock
GetFieldString(sql) ==
  IF sql.selects = <<>> THEN <<"*">>
  ELSE JoinTokens([i \in 1..Len(sql.selects) |-> <<sql.selects[i]>>], <<",">>)

\* JoinBlock: LEFT JOIN table AS alias ON (condition)
JoinString(sql) ==
  Flatten([i \in 1..Len(sql.joins) |->
     <<"LEFT JOIN", sql.joins[i].table, "AS", sql.joins[i].alias, "ON">>
       \o ApplyNestingFormatting(BuildString(sql.joins[i].condition, <<>>, FALSE).text, TRUE)])

\* WhereBlock: WHERE (c1) AND (c2); a condition whose text is empty is left out
WhereString(sql) ==
  LET parts == [i \in 1..Len(sql.where) |-> ExpressionString(sql.where[i], FALSE)]
      texts == SelectSeq([i \in 1..Len(parts) |-> parts[i].text], LAMBDA t : t # <<>>)
  IN Rendered(IF texts = <<>> THEN <<>>
              ELSE <<"WHERE", "(">> \o JoinTokens(texts, <<")", "AND", "(">>) \o <<")">>,
              Flatten([i \in 1..Len(parts) |-> parts[i].values]))

\* OrderByBlock
OrderByString(sql) ==
  IF sql.order = <<>> THEN <<>>
  ELSE <<"ORDER BY">> \o JoinTokens([i \in 1..Len(sql.order) |->
            <<sql.order[i].field, IF sql.order[i].asc THEN "ASC" ELSE "DESC">>], <<",">>)

\* LimitBlock, OffsetBlock
VerbValueString(verb, value) ==
  IF value = <<>> THEN Rendered(<<>>, <<>>) ELSE BuildString(<<verb, "?">>, value, FALSE)

\* ReturningBlock
ReturningString(sql) ==
  IF sql.returning = "" THEN <<>> ELSE <<"RETURNING", sql.returning>>

\* QueryBuilder._toParamString: the blocks in order; a nested statement is
\* put in brackets
RECURSIVE StatementString(_, _)
StatementString(sql, nested) ==
  LET ctes == [i \in 1..Len(sql.with) |-> StatementString(sql.with[i].table, TRUE)]
      with == IF sql.with = <<>> THEN <<>>
              ELSE <<"WITH">> \o JoinTokens([i \in 1..Len(ctes) |->
                       <<sql.with[i].alias, "AS">> \o ctes[i].text], <<",">>)
      withValues == Flatten([i \in 1..Len(ctes) |-> ctes[i].values])
      head == IF sql.verb = "INSERT" THEN Rendered(<<"INSERT", "INTO", sql.table>>, <<>>)
              ELSE IF sql.verb = "UPDATE" THEN Rendered(<<"UPDATE", sql.table>>, <<>>)
              ELSE IF sql.verb = "DELETE" THEN Rendered(<<"DELETE", "FROM", sql.table>>, <<>>)
              ELSE Rendered(<<"SELECT">> \o GetFieldString(sql) \o <<"FROM", sql.table>>, <<>>)
      set == IF sql.verb = "INSERT" THEN InsertFieldValueString(sql)
             ELSE IF sql.verb = "UPDATE" THEN SetFieldString(sql)
             ELSE Rendered(<<>>, <<>>)
      where == WhereString(sql)
      limit == VerbValueString("LIMIT", sql.limit)
      offset == VerbValueString("OFFSET", sql.offset)
      text == with \o head.text \o set.text \o JoinString(sql) \o where.text
                \o OrderByString(sql) \o limit.text \o offset.text \o ReturningString(sql)
  IN Rendered(ApplyNestingFormatting(text, nested),
              withValues \o set.values \o where.values \o limit.values \o offset.values)

\* the error <builder function>(q).toParam() throws, "" when it throws none
toParamThrows(sql) ==
  IF sql.err # "" THEN sql.err
  ELSE IF sql.verb = "UPDATE" /\ sql.fields = <<>> THEN "Error"
  ELSE ""

\* the outcome of <builder function>(q).toParam(): the error thrown, or the
\* text with numbered parameters and the values.  SetFieldBlock throws when
\* no field was set.
toParam(sql) ==
  IF sql.err # "" THEN [err |-> sql.err, text |-> <<>>, values |-> <<>>]
  ELSE IF sql.verb = "UPDATE" /\ sql.fields = <<>>
  THEN [err |-> "Error", text |-> <<>>, values |-> <<>>]
  ELSE LET ret == StatementString(sql, FALSE)
       IN [err |-> "", text |-> NumberParams(ret.text, 1), values |-> ret.values]

-----------------------------------------------------------------------------
(* Query objects (src/query.ts).  An optional property is a flag and a     *)
(* value: q.joins is undefined when hasJoins is FALSE.                     *)

Query(kind, source) ==
  [kind |-> kind, source |-> source, returning |-> <<>>, data |-> Undefined,
   hasJoins |-> FALSE, joins |-> <<>>,
   hasConditions |-> FALSE, conditions |-> <<>>,
   hasFields |-> FALSE, fields |-> <<>>,
   hasOrder |-> FALSE, order |-> <<>>,
   hasPage |-> FALSE, page |-> [size |-> 0, number |-> 1]]

Join(source, path, from, to) == [source |-> source, path |-> path, from |-> from, to |-> to]

\* the sequences of at most n distinct elements of S
RECURSIVE DistinctSeqs(_, _)
DistinctSeqs(S, n) ==
  IF n = 0 THEN {<<>>}
  ELSE {<<>>} \cup UNION {{<<x>> \o rest : rest \in DistinctSeqs(S \ {x}, n - 1)} : x \in S}

\* optional joins: undefined, or a list of at most MaxJoins joins of pool
\* with distinct paths
WithJoins(query, pool) ==
  {query} \cup {[query EXCEPT !.hasJoins = TRUE, !.joins = js] : js \in DistinctSeqs(pool, MaxJoins)}

(* Create and Update *)

NewUser == Obj(<< <<"name", Str("new user")>> >>)
Tags == Arr(<< <<"0", Str("one")>>, <<"1", Str("two")>> >>)

\* what the data may hold at `owner`: scalars, null, an array, and objects,
\* one of them with an object and one with an array below it
OwnerValues ==
  {Num("10"), Str("u10"), Bool("true"), Null, Tags, NewUser,
   Obj(<< <<"name", Str("new user")>>, <<"address", Obj(<< <<"city", Str("Oslo")>> >>)>> >>),
   Obj(<< <<"name", Str("new user")>>, <<"tags", Tags>> >>)}

ProjectValues == {Num("10"), Null, Obj(<< <<"name", Str("new project")>> >>)}

\* q.data: a name, and optionally a project and an owner
DataValues ==
  LET name == << <<"name", Str("new task")>> >>
      projects == {<<>>} \cup {<< <<"project", v>> >> : v \in ProjectValues}
      owners == {<<>>} \cup {<< <<"owner", v>> >> : v \in OwnerValues}
  IN {Obj(name \o p \o o) : p \in projects, o \in owners}

\* an array of n elements
ArrayOf(n) == Arr([i \in 1..n |-> <<NumStr(i - 1), Str("tag" \o NumStr(i))>>])

\* q.data with an array value of every length up to MaxArrayLen
ArrayData ==
  {Obj(<< <<"name", Str("new task")>>, <<"tags", ArrayOf(n)>> >>) : n \in 0..MaxArrayLen}

WriteJoins ==
  {Join("users", <<"owner">>, "owner", "id"),
   Join("projects", <<"project">>, "project", "id"),
   Join("addresses", <<"owner", "address">>, "address", "id"),
   Join("labels", <<"owner", "tags">>, "tags", "id")}

TermId == CondTerm("id", NoOperator, Num("5"))
RawLike == CondRaw(<<"CONCAT", "(", "test.name", ",", "test.description", ")", "LIKE", "?">>,
                   <<Str("%test%")>>)

CreateQueries ==
  UNION {WithJoins([Query("Create", "tasks") EXCEPT !.returning = <<"id">>, !.data = d],
                   WriteJoins) : d \in DataValues}
    \cup {[Query("Create", "tasks") EXCEPT !.returning = <<"id">>, !.data = d] : d \in ArrayData}

UpdateQueries ==
  UNION {WithJoins([Query("Update", "tasks") EXCEPT
                      !.returning = <<"id", "name">>, !.data = d,
                      !.hasConditions = c, !.conditions = IF c THEN <<TermId>> ELSE <<>>],
                   WriteJoins) : d \in DataValues, c \in BOOLEAN}
    \cup {[Query("Update", "tasks") EXCEPT !.returning = <<"id">>, !.data = d] : d \in ArrayData}

(* Read, Count and Delete *)

Leaves == {TermId, RawLike}

\* a $raw without values, alone and in a group with a $raw that has one
RawPlain == CondRaw(<<"CONCAT", "(", "test.name", ",", "test.description", ")", "LIKE", "%test%">>,
                    <<>>)
RawConditionLists == {<<RawPlain>>, <<CondOr(<<RawLike, RawPlain, TermId>>)>>}

\* operators of a Term: none, comparison operators, the jsonb operator `?`
\* (does the key exist), and a string that is no operator
Operators == {NoOperator, ">=", "LIKE", "?", "; DROP TABLE test; --"}

\* one Term of every operator, for a number and for a string
Terms == {CondTerm("id", op, v) : op \in Operators, v \in {Num("5"), Str("a%")}}

\* the condition trees of exactly n nodes, and the lists of trees (forests)
\* of exactly n nodes in all
RECURSIVE Trees(_), Forests(_)
Trees(n) ==
  IF n = 0 THEN {}
  ELSE (IF n = 1 THEN Leaves ELSE {})
       \cup {CondAnd(f) : f \in Forests(n - 1)} \cup {CondOr(f) : f \in Forests(n - 1)}

Forests(n) ==
  IF n = 0 THEN {<<>>}
  ELSE UNION {{<<t>> \o f : t \in Trees(k), f \in Forests(n - k)} : k \in 1..n}

ConditionLists(n) == UNION {Forests(k) : k \in 0..n}

WithConditions(query, lists) ==
  {query} \cup {[query EXCEPT !.hasConditions = TRUE, !.conditions = cs] : cs \in lists}

ReadJoins ==
  {Join("users", <<"users">>, "owner_id", "id"),
   Join("users", <<"test", "users">>, "owner_id", "id"),
   Join("orgs", <<"test", "users", "org">>, "org_id", "id")}

FieldLists ==
  {<<[raw |-> FALSE, s |-> "id"], [raw |-> FALSE, s |-> "name"]>>,
   <<[raw |-> FALSE, s |-> "id"], [raw |-> TRUE, s |-> "COUNT(test.project) OVER ()"]>>}

OrderLists ==
  {<<[field |-> "name", direction |-> "asc"]>>,
   <<[field |-> "name", direction |-> "DESC"], [field |-> "id", direction |-> "Asc"]>>}

\* the spellings of a direction
Directions == {"asc", "ASC", "Asc", "aSC", "desc", "DESC", "Desc", "dEsC"}

\* one and two order entries of every spelling
SpelledOrders ==
  {<<[field |-> "name", direction |-> d]>> : d \in Directions}
    \cup {<<[field |-> "id", direction |-> d], [field |-> "name", direction |-> e]>> :
            d \in {"aSC", "dEsC"}, e \in Directions}

Pages == {[size |-> 5, number |-> 4], [size |-> 2, number |-> 1]}

\* every page of the bounds
AllPages == {[size |-> s, number |-> n] : s \in 1..MaxPageSize, n \in 1..MaxPageNumber}

\* Read queries: every condition list of the bound, and the combinations of
\* joins, fields, order and page with and without a condition
ReadQueries ==
  LET base == Query("Read", "test")
      fielded == {base} \cup {[base EXCEPT !.hasFields = TRUE, !.fields = f] : f \in FieldLists}
      ordered == UNION {{x} \cup {[x EXCEPT !.hasOrder = TRUE, !.order = o] : o \in OrderLists}
                        : x \in fielded}
      paged == UNION {{x} \cup {[x EXCEPT !.hasPage = TRUE, !.page = p] : p \in Pages}
                      : x \in ordered}
      joined == UNION {WithJoins(x, ReadJoins) : x \in paged}
  IN WithConditions(base, ConditionLists(MaxCondNodes))
       \cup UNION {WithConditions(x, {<<TermId>>}) : x \in joined}
       \cup {[base EXCEPT !.hasConditions = TRUE, !.conditions = <<t>>] : t \in Terms}
       \cup {[base EXCEPT !.hasConditions = TRUE, !.conditions = cs] : cs \in RawConditionLists}
       \cup {[base EXCEPT !.hasOrder = TRUE, !.order = o] : o \in SpelledOrders}
       \cup {[base EXCEPT !.hasPage = TRUE, !.page = p] : p \in AllPages}

DeleteQueries ==
  WithConditions(Query("Delete", "test"), ConditionLists(2) \cup {<<t>> : t \in Terms})

Queries == CreateQueries \cup UpdateQueries \cup ReadQueries \cup DeleteQueries

-----------------------------------------------------------------------------
(* Schema discovery (provider/postgresql/discovery.ts and the discover     *)
(* method of provider/postgresql.ts).  The source holds two revisions of   *)
(* discovery.ts: "filter" enumerates every table and filters the rows with *)
(* matchesScope, then queries has, belongsTo and columns per table;        *)
(* "conditions" builds the WHERE clause of the tables and views queries    *)
(* with scopeTerm and lets the database filter.                            *)
(*                                                                         *)
(* A function that can throw returns a record: threw says whether it       *)
(* threw, value is what it returned otherwise.                             *)
(***************************************************************************)

Revisions == {"filter", "conditions"}

Returned(v) == [threw |-> FALSE, value |-> v]
Threw(v) == [threw |-> TRUE, value |-> v]

\* an array of strings
Names(names) == Arr([i \in 1..Len(names) |-> <<NumStr(i - 1), Str(names[i])>>])

\* Array.prototype.includes(name)
Includes(array, name) == \E i \in 1..Len(array.kids) : array.kids[i][2] = Str(name)

\* !value
Falsy(v) ==
  \/ IsNil(v)
  \/ v = Bool("false")
  \/ v = Str("")
  \/ v = Num("0")

\* the Scope values of a configuration file
ScopeTrue == Bool("true")
Only(names) == Obj(<< <<"only", Names(names)>> >>)
Except(names) == Obj(<< <<"except", Names(names)>> >>)

\* a discovery Config; a key the file leaves out reads as undefined
Config(schemas, tables, views) == [schemas |-> schemas, tables |-> tables, views |-> views]

\* discovery.matchesScope(scope, name), revision "filter"; the `in` operator
\* throws a TypeError when its right operand is not an object
matchesScope(scope, name) ==
  IF Falsy(scope) THEN Returned(FALSE)
  ELSE IF scope = Bool("true") THEN Returned(TRUE)
  ELSE IF TypeOf(scope) # "object" THEN Threw(FALSE)
  ELSE IF HasKey(scope, "only") THEN Returned(Includes(Get(scope, "only"), name))
  ELSE IF HasKey(scope, "except") THEN Returned(~Includes(Get(scope, "except"), name))
  ELSE Threw(FALSE)

\* tables.filter(table => matchesScope(config.tables, table.name) &&
\*                        matchesScope(config.schemas, table.schema));
\* && evaluates its right operand only when the left one is true
RECURSIVE FilterByScope(_, _)
FilterByScope(config, tables) ==
  IF tables = <<>> THEN Returned(<<>>)
  ELSE LET table == Head(tables)
           byName == matchesScope(config.tables, Get(table, "name").s)
           bySchema == matchesScope(config.schemas, Get(table, "schema").s)
           rest == FilterByScope(config, Tail(tables))
       IN IF byName.threw THEN Threw(<<>>)
          ELSE IF byName.value /\ bySchema.threw THEN Threw(<<>>)
          ELSE IF rest.threw THEN Threw(<<>>)
          ELSE IF byName.value /\ bySchema.value THEN Returned(<<table>> \o rest.value)
          ELSE rest

\* discovery.filterTablesByScope(config, tables), revision "filter"
filterTablesByScope(config, tables) ==
  IF config.schemas = Bool("true") /\ config.tables = Bool("true")
  THEN Returned(tables)
  ELSE FilterByScope(config, tables)

\* a term of a WHERE clause as pg-promise's as.format writes it: sql is
\* "TRUE", "FALSE", "IN" or "NOT IN", name the column ($1:name) and csv the
\* list of values ($2:csv).  An empty list is written as no text at all, so
\* that the term reads "table_name" IN ().
Term(sql, name, csv) == [sql |-> sql, name |-> name, csv |-> csv]

\* the elements of an array
Values(array) == [i \in 1..Len(array.kids) |-> array.kids[i][2].s]

\* discovery.scopeTerm(name, scope), revision "conditions"
scopeTerm(name, scope) ==
  IF Falsy(scope) THEN Returned(Term("FALSE", name, <<>>))
  ELSE IF scope = Bool("true") THEN Returned(Term("TRUE", name, <<>>))
  ELSE IF TypeOf(scope) # "object" THEN Threw(Term("", name, <<>>))
  ELSE IF HasKey(scope, "only")
  THEN Returned(Term("IN", name, Values(Get(scope, "only"))))
  ELSE IF HasKey(scope, "except")
  THEN Returned(Term("NOT IN", name, Values(Get(scope, "except"))))
  ELSE Threw(Term("", name, <<>>))

\* discovery.conditions(type, configs): one (schema term AND entity term)
\* per config, joined by OR; the clause is kept as the list of its pairs
RECURSIVE conditions(_, _)
conditions(type, configs) ==
  IF configs = <<>> THEN Returned(<<>>)
  ELSE LET config == Head(configs)
           schemaTerm == scopeTerm("table_schema", config.schemas)
           entityTerm == scopeTerm("table_name", config[type])
           rest == conditions(type, Tail(configs))
       IN IF schemaTerm.threw \/ entityTerm.threw \/ rest.threw THEN Threw(<<>>)
          ELSE Returned(<<[schema |-> schemaTerm.value, entity |-> entityTerm.value]>>
                         \o rest.value)

\* PostgreSQL parses a term: IN and NOT IN need at least one value
WellFormedTerm(term) == term.sql \in {"IN", "NOT IN"} => term.csv # <<>>

\* PostgreSQL parses WHERE <clause>: the clause is not empty and every term
\* is well formed
WellFormed(clause) ==
  /\ clause # <<>>
  /\ \A i \in 1..Len(clause) :
       WellFormedTerm(clause[i].schema) /\ WellFormedTerm(clause[i].entity)

\* PostgreSQL evaluates a term for an entity of the catalog
TermHolds(term, entity) ==
  LET column == IF term.name = "table_schema" THEN entity.schema ELSE entity.name
      listed == \E i \in 1..Len(term.csv) : term.csv[i] = column
  IN IF term.sql = "TRUE" THEN TRUE
     ELSE IF term.sql = "FALSE" THEN FALSE
     ELSE IF term.sql = "IN" THEN listed
     ELSE ~listed

\* PostgreSQL evaluates WHERE <clause> for an entity of the catalog
Where(clause, entity) ==
  \E i \in 1..Len(clause) :
    TermHolds(clause[i].schema, entity) /\ TermHolds(clause[i].entity, entity)

\* the entities of a kind ("table" or "view") in the catalog, in its order
RECURSIVE EntitiesOf(_, _)
EntitiesOf(entities, kind) ==
  IF entities = <<>> THEN <<>>
  ELSE IF Head(entities).kind = kind
  THEN <<Head(entities)>> \o EntitiesOf(Tail(entities), kind)
  ELSE EntitiesOf(Tail(entities), kind)

\* the entities PostgreSQL selects with WHERE <clause>
RECURSIVE Matching(_, _)
Matching(entities, clause) ==
  IF entities = <<>> THEN <<>>
  ELSE IF Where(clause, Head(entities))
  THEN <<Head(entities)>> \o Matching(Tail(entities), clause)
  ELSE Matching(Tail(entities), clause)

\* a row of tables.sql: SELECT table_schema AS schema, table_name AS name
TableRow(entity) ==
  Obj(<< <<"schema", Str(entity.schema)>>, <<"name", Str(entity.name)>> >>)

\* a row of views.sql: SELECT table_schema, table_name
ViewRow(entity) ==
  Obj(<< <<"table_schema", Str(entity.schema)>>, <<"table_name", Str(entity.name)>> >>)

TableRows(entities) == [i \in 1..Len(entities) |-> TableRow(entities[i])]
ViewRows(entities) == [i \in 1..Len(entities) |-> ViewRow(entities[i])]

\* a foreign key of the database: column of table schema.name references
\* toColumn of table toSchema.toName
ForeignKey(schema, name, column, toSchema, toName, toColumn) ==
  [schema |-> schema, name |-> name, column |-> column,
   toSchema |-> toSchema, toName |-> toName, toColumn |-> toColumn]

ForeignKeys ==
  <<ForeignKey("public", "tasks", "owner_id", "public", "users", "id"),
    ForeignKey("audit", "users", "user_id", "public", "users", "id")>>

\* a row of has.sql / belongsTo.sql
Relationship(schema, name, from, to) ==
  Obj(<< <<"schema", Str(schema)>>, <<"name", Str(name)>>,
         <<"from", Str(from)>>, <<"to", Str(to)>> >>)

\* the foreign keys among the tables of a catalog, in their order
RECURSIVE KeysAmong(_, _)
KeysAmong(keys, entities) ==
  IF keys = <<>> THEN <<>>
  ELSE LET key == Head(keys)
           has(schema, name) == \E i \in 1..Len(entities) :
                                  /\ entities[i].kind = "table"
                                  /\ entities[i].schema = schema
                                  /\ entities[i].name = name
       IN (IF has(key.schema, key.name) /\ has(key.toSchema, key.toName)
           THEN <<key>> ELSE <<>>) \o KeysAmong(Tail(keys), entities)

\* has.sql for a table: one Relationship for each foreign key that
\* references the table, naming the referencing table
RECURSIVE Has(_, _, _)
Has(keys, schema, name) ==
  IF keys = <<>> THEN <<>>
  ELSE LET key == Head(keys)
       IN (IF key.toSchema = schema /\ key.toName = name
           THEN <<Relationship(key.schema, key.name, key.toColumn, key.column)>>
           ELSE <<>>) \o Has(Tail(keys), schema, name)

\* belongsTo.sql for a table: one Relationship for each foreign key of the
\* table, naming the table referenced
RECURSIVE BelongsTo(_, _, _)
BelongsTo(keys, schema, name) ==
  IF keys = <<>> THEN <<>>
  ELSE LET key == Head(keys)
       IN (IF key.schema = schema /\ key.name = name
           THEN <<Relationship(key.toSchema, key.toName, key.column, key.toColumn)>>
           ELSE <<>>) \o BelongsTo(Tail(keys), schema, name)

\* a Source configuration: its name and its relationships (identifying
\* properties and schema are left out)
Source(name, has, belongsTo) == [name |-> name, has |-> has, belongsTo |-> belongsTo]

\* discovery.mapTables(configs, options, tables), revision "conditions"
mapTables(tables) ==
  [i \in 1..Len(tables) |-> Source(Get(tables[i], "table_name"), <<>>, <<>>)]

\* discovery.mapViews(configs, options, views), revision "conditions"
mapViews(views) ==
  [i \in 1..Len(views) |-> Source(Get(views[i], "table_name"), <<>>, <<>>)]

\* promises: one not yet created, pending, resolved to a value, rejected
NoPromise == [state |-> "none", value |-> <<>>]
Pending == [state |-> "pending", value |-> <<>>]
Resolved(v) == [state |-> "resolved", value |-> v]
Rejected == [state |-> "rejected", value |-> <<>>]

\* a property of an object that may be undefined
NotSet == [defined |-> FALSE, value |-> <<>>]
SetTo(value) == [defined |-> TRUE, value |-> value]

\* new Core(): no config, no providers, no sources
NewCore == [configured |-> FALSE, providers |-> NotSet, sources |-> NotSet,
            started |-> FALSE, seen |-> NotSet]

\* no Provider operation was called yet
NoOperation == [name |-> "", context |-> "", returned |-> NoPromise]

Settled(promise) == promise.state \in {"resolved", "rejected"}

\* Promise.all(promises): rejected as soon as one of them is, resolved to
\* the list of their values when all of them are
PromiseAll(promises) ==
  IF \E i \in 1..Len(promises) : promises[i].state = "rejected" THEN Rejected
  ELSE IF \A i \in 1..Len(promises) : promises[i].state = "resolved"
  THEN Resolved([i \in 1..Len(promises) |-> promises[i].value])
  ELSE Pending

\* pg-promise's context.batch(promises): settles when all of them have;
\* rejected when one of them is, resolved to the list of their values
\* otherwise
Batch(promises) ==
  IF \E i \in 1..Len(promises) : ~Settled(promises[i]) THEN Pending
  ELSE PromiseAll(promises)

\* an inspect call: the configs it was given, whether it has thrown, the
\* promises of its tables and views queries, the per-table batches of has,
\* belongsTo and columns (revision "filter"; each with the table row it is
\* for and the promise of the async function that awaits it) and the
\* promise the call returned
Call(configs, threw, tables, views, batches, promise) ==
  [configs |-> configs, threw |-> threw, tables |-> tables, views |-> views,
   batches |-> batches, promise |-> promise]

Promises(batches) == [i \in 1..Len(batches) |-> batches[i].promise]

\* the promise an inspect call of revision "filter" returned: rejected when
\* the tables query failed or filterTablesByScope threw, Promise.all of the
\* per-table results otherwise
inspectTables(threw, tables, batches) ==
  IF threw \/ tables.state = "rejected" THEN Rejected
  ELSE IF tables.state = "pending" THEN Pending
  ELSE PromiseAll(Promises(batches))

\* the promise an inspect call of revision "conditions" returned: rejected
\* when conditions threw, the Sources of the rows of both queries once the
\* batch of the two has resolved
inspectEntities(threw, tables, views) ==
  LET both == Batch(<<tables, views>>)
  IN IF threw THEN Rejected
     ELSE IF both.state = "resolved"
     THEN Resolved(mapTables(both.value[1]) \o mapViews(both.value[2]))
     ELSE both

\* inspect(context, config), revision "filter", up to its first await
inspectConfig(config) ==
  Call(<<config>>, FALSE, Pending, NoPromise, <<>>, Pending)

\* inspect(context, configs), revision "conditions", up to its await: the
\* tables query is sent before conditions('views', configs) is evaluated
inspectConfigs(configs) ==
  LET forTables == conditions("tables", configs)
      forViews == conditions("views", configs)
      threw == forTables.threw \/ forViews.threw
      tables == IF forTables.threw THEN NoPromise ELSE Pending
      views == IF threw THEN NoPromise ELSE Pending
  IN Call(configs, threw, tables, views, <<>>, inspectEntities(threw, tables, views))

\* PostgreSQL.discover: Promise.all(sources).then(flatten) over one inspect
\* call per config (revision "filter"); revision "conditions" takes the
\* list of configs in one inspect call, whose promise is the outcome
discover(rev, calls) ==
  IF rev = "conditions" THEN calls[1].promise
  ELSE LET all == PromiseAll([i \in 1..Len(calls) |-> calls[i].promise])
       IN IF all.state = "resolved" THEN Resolved(Flatten(all.value)) ELSE all

-----------------------------------------------------------------------------
(* The configurations and catalogs discovery is run on *)

Catalog(schema, name, kind) == [schema |-> schema, name |-> name, kind |-> kind]

Catalogs ==
  LET users == Catalog("public", "users", "table")
      tasks == Catalog("public", "tasks", "table")
      audit == Catalog("audit", "users", "table")
      recent == Catalog("public", "recent", "view")
  IN {<<>>, <<users>>, <<users, tasks>>, <<users, audit>>, <<users, recent>>}

\* a value that is no Scope: an object with neither `only` nor `except`
Include(names) == Obj(<< <<"include", Names(names)>> >>)

\* the values a scope key of a configuration file is given, around name
ScopesOf(name) ==
  {ScopeTrue, Only(<<>>), Only(<<name>>), Except(<<>>), Except(<<name>>),
   Undefined, Bool("false"), Include(<<name>>)}

FirstConfigs ==
  {Config(s, t, v) : s \in ScopesOf("public"), t \in ScopesOf("users"),
                     v \in {Undefined, ScopeTrue, Include(<<"recent">>)}}

OtherConfigs ==
  {Config(ScopeTrue, ScopeTrue, Undefined),
   Config(Only(<<"public">>), Only(<<"users">>), Undefined),
   Config(ScopeTrue, Except(<<"users">>), ScopeTrue),
   Config(ScopeTrue, Include(<<"users">>), Undefined)}

\* config.discovery: no config, one config, or up to MaxConfigs of them
ConfigLists ==
  {<<>>} \cup {<<c>> : c \in FirstConfigs}
         \cup UNION {[1..n -> OtherConfigs] : n \in 2..MaxConfigs}

-----------------------------------------------------------------------------
(* JSON Schema synthesis (provider/postgresql/discovery/schema.ts).  A     *)
(* Column is the object columns.sql builds with json_build_object.  The    *)
(* text of a CHECK constraint is a string held as the sequence of its      *)
(* tokens (brackets, quotes, "::", ", " and words), so that the regular    *)
(* expressions of isEnumConstraint can be modelled token by token.         *)
(***************************************************************************)

\* a string held as its tokens
Text(tokens) == [t |-> "string", s |-> "", a |-> "", kids |-> tokens]

\* ramda's merge(a, b) of two objects: Object.assign({}, a, b)
RECURSIVE AssignAll(_, _)
AssignAll(obj, kids) ==
  IF kids = <<>> THEN obj
  ELSE AssignAll(Assoc(Head(kids)[1], Head(kids)[2], obj), Tail(kids))

Merge(a, b) == IF b.t = "object" THEN AssignAll(a, b.kids) ELSE a

\* ramda's mergeAll(list): Object.assign({}, ...list); a source that is
\* undefined or null is skipped
RECURSIVE MergeAll(_)
MergeAll(list) ==
  IF list = <<>> THEN Obj(<<>>)
  ELSE Merge(MergeAll(SubSeq(list, 1, Len(list) - 1)), list[Len(list)])

TYPE_STRING_INTEGER ==
  Obj(<< <<"type", Str("string")>>, <<"pattern", Str("^\\d+$")>> >>)

TYPE_STRING_DECIMAL ==
  Obj(<< <<"type", Str("string")>>, <<"pattern", Str("^[1-9]\\d*(\\.\\d+)?$")>> >>)

TYPE_NUMBER == Obj(<< <<"type", Str("number")>> >>)

OfType(type) == Obj(<< <<"type", Str(type)>> >>)

DateTime == Obj(<< <<"type", Str("string")>>, <<"format", Str("date-time")>> >>)

Interval ==
  LET units == <<"milliseconds", "seconds", "minutes", "hours", "days", "months", "years">>
  IN Obj(<< <<"type", Str("object")>>,
            <<"format", Str("interval")>>,
            <<"minProperties", Num("1")>>,
            <<"additionalProperties", Bool("false")>>,
            <<"properties", Obj([i \in 1..Len(units) |-> <<units[i], TYPE_NUMBER>>])>> >>)

\* the lookup table of PostgreSQL column types
BASE_TYPES ==
  Obj(<< <<"bigserial", TYPE_STRING_INTEGER>>,
         <<"boolean", OfType("boolean")>>,
         <<"character", OfType("string")>>,
         <<"bigint", TYPE_STRING_INTEGER>>,
         <<"json", OfType("object")>>,
         <<"jsonb", OfType("object")>>,
         <<"text", OfType("string")>>,
         <<"interval", Interval>>,
         <<"character varying", OfType("string")>>,
         <<"date", DateTime>>,
         <<"time without time zone", DateTime>>,
         <<"time with time zone", DateTime>>,
         <<"timestamp without time zone", DateTime>>,
         <<"timestamp with time zone", DateTime>> >>)

\* options.strictNumbers, as a condition
StrictNumbers(options) == ~Falsy(Get(options, "strictNumbers"))

\* columnType, were it to take no notice of options.strictNumbers
columnType_NeverStrict(column, options) ==
  LET TYPE_INTEGER == Obj(<< <<"oneOf", Arr(<< <<"0", TYPE_NUMBER>>,
                                               <<"1", TYPE_STRING_INTEGER>> >>)>> >>)
      TYPE_DECIMAL == Obj(<< <<"oneOf", Arr(<< <<"0", TYPE_NUMBER>>,
                                               <<"1", TYPE_STRING_DECIMAL>> >>)>> >>)
      types == Merge(BASE_TYPES,
                     Obj(<< <<"integer", TYPE_INTEGER>>,
                            <<"numeric", TYPE_DECIMAL>>,
                            <<"real", TYPE_DECIMAL>>,
                            <<"smallint", TYPE_INTEGER>>,
                            <<"smallserial", TYPE_INTEGER>>,
                            <<"serial", TYPE_INTEGER>>,
                            <<"double precision", TYPE_DECIMAL>> >>))
  IN Get(types, Get(column, "type").s)

\* schema.columnType(column, options)
columnType(column, options) ==
  LET TYPE_INTEGER == IF StrictNumbers(options) THEN TYPE_NUMBER
                      ELSE Obj(<< <<"oneOf", Arr(<< <<"0", TYPE_NUMBER>>,
                                                    <<"1", TYPE_STRING_INTEGER>> >>)>> >>)
      TYPE_DECIMAL == IF StrictNumbers(options) THEN TYPE_NUMBER
                      ELSE Obj(<< <<"oneOf", Arr(<< <<"0", TYPE_NUMBER>>,
                                                    <<"1", TYPE_STRING_DECIMAL>> >>)>> >>)
      types == Merge(BASE_TYPES,
                     Obj(<< <<"integer", TYPE_INTEGER>>,
                            <<"numeric", TYPE_DECIMAL>>,
                            <<"real", TYPE_DECIMAL>>,
                            <<"smallint", TYPE_INTEGER>>,
                            <<"smallserial", TYPE_INTEGER>>,
                            <<"serial", TYPE_INTEGER>>,
                            <<"double precision", TYPE_DECIMAL>> >>))
  IN Get(types, Get(column, "type").s)

\* the default expressions of the model that start with 'nextval'
NextvalDefaults == {"nextval('test_id_seq'::regclass)", "nextval"}

\* String.prototype.startsWith('nextval')
StartsWithNextval(s) == s \in NextvalDefaults

\* isReadOnly, were it not to look at the default
isReadOnly_AnyDefault(column) ==
  LET isPrimary == /\ ~Falsy(Get(column, "isprimarykey"))
                   /\ Get(column, "nullable") = Bool("false")
  IN IF isPrimary THEN Obj(<< <<"readOnly", Bool("true")>> >>) ELSE Obj(<<>>)

\* schema.isReadOnly(column)
isReadOnly(column) ==
  LET isPrimary == /\ ~Falsy(Get(column, "isprimarykey"))
                   /\ Get(column, "nullable") = Bool("false")
                   /\ TypeOf(Get(column, "default")) = "string"
                   /\ StartsWithNextval(Get(column, "default").s)
  IN IF isPrimary THEN Obj(<< <<"readOnly", Bool("true")>> >>) ELSE Obj(<<>>)

\* the positions at which ENUM_CHECK_REGEX, /^\(.* = ANY \(ARRAY\[(.*)\]\)\)/,
\* can match the tokens of a text: <<i, j>> with " = ANY (ARRAY" and "[" at
\* i and i + 1 and "]", ")", ")" from j on
EnumCheckMatches(tokens) ==
  {<<i, j>> \in (2..Len(tokens)) \X (2..Len(tokens)) :
     /\ tokens[1] = "("
     /\ i + 1 <= Len(tokens) /\ tokens[i] = " = ANY (ARRAY" /\ tokens[i + 1] = "["
     /\ j >= i + 2 /\ j + 2 <= Len(tokens)
     /\ tokens[j] = "]" /\ tokens[j + 1] = ")" /\ tokens[j + 2] = ")"}

\* the greatest element of a non-empty set of numbers
Max(S) == CHOOSE n \in S : \A m \in S : m <= n

\* constraint.match(ENUM_CHECK_REGEX)[1]: both .* are greedy, the first one
\* first; <<>> stands for no match as well as for an empty capture
EnumCheck(tokens) ==
  LET matches == EnumCheckMatches(tokens)
      i == Max({m[1] : m \in matches})
      j == Max({m[2] : m \in {n \in matches : n[1] = i}})
  IN IF matches = {} THEN <<>> ELSE SubSeq(tokens, i + 2, j - 1)

\* String.prototype.split(', ') of a text whose separator is the token ", "
RECURSIVE Split(_, _)
Split(tokens, current) ==
  IF tokens = <<>> THEN <<current>>
  ELSE IF Head(tokens) = ", " THEN <<current>> \o Split(Tail(tokens), <<>>)
  ELSE Split(Tail(tokens), Append(current, Head(tokens)))

\* value.match(ENUM_EXTRACT_VALUE_REGEX)[1] with /^'(.*)'::.*/: the text
\* between the first quote and the last quote that "::" follows; <<>>
\* stands for no match as well as for an empty capture
EnumExtractValue(tokens) ==
  LET ends == {k \in 2..Len(tokens) - 1 : tokens[k] = "'" /\ tokens[k + 1] = "::"}
  IN IF tokens = <<>> \/ tokens[1] # "'" \/ ends = {} THEN <<>>
     ELSE SubSeq(tokens, 2, Max(ends) - 1)

\* the values of one constraint: [] for null and for a text that does not
\* match, the extracted values that are not empty otherwise
EnumValues(constraint) ==
  IF Falsy(constraint) THEN <<>>
  ELSE LET result == EnumCheck(constraint.kids)
           values == Split(result, <<>>)
           extracted == [i \in 1..Len(values) |-> EnumExtractValue(values[i])]
       IN IF result = <<>> THEN <<>>
          ELSE SelectSeq([i \in 1..Len(extracted) |-> Text(extracted[i])],
                         LAMBDA v : v.kids # <<>>)

\* schema.isEnumConstraint(column); .filter(identity) keeps every array,
\* an empty one too
isEnumConstraint(column) ==
  LET constraints == Get(column, "constraints")
      values == [i \in 1..Len(constraints.kids) |-> EnumValues(constraints.kids[i][2])]
      flat == Flatten(values)
  IN IF Falsy(constraints) \/ constraints.kids = <<>> THEN Obj(<<>>)
     ELSE IF values = <<>> THEN Obj(<<>>)
     ELSE Obj(<< <<"enum", Arr([i \in 1..Len(flat) |-> <<NumStr(i - 1), flat[i]>>])>> >>)

\* isRequired, were it not to look at the default
isRequired_AnyDefault(column) ==
  Get(column, "nullable") = Bool("false")

\* schema.isRequired(column)
isRequired(column) ==
  Get(column, "nullable") = Bool("false") /\ Get(column, "default") = Null

\* schema.required(columns, options)
required(columns, options) ==
  LET kept == SelectSeq(columns, isRequired)
  IN Arr([i \in 1..Len(kept) |-> <<NumStr(i - 1), Get(kept[i], "name")>>])

\* schema.property(column, options)
property(column, options) ==
  Obj(<< <<Get(column, "name").s,
           MergeAll(<<columnType(column, options), isReadOnly(column),
                      isEnumConstraint(column)>>)>> >>)

\* schema.properties(columns, options)
properties(columns, options) ==
  MergeAll([i \in 1..Len(columns) |-> property(columns[i], options)])

\* schema.schema(table, columns, options)
schema(table, columns, options) ==
  Obj(<< <<"$schema", Str("http://json-schema.org/draft-04/schema#")>>,
         <<"title", Get(table, "name")>>,
         <<"type", Str("object")>>,
         <<"properties", properties(columns, options)>>,
         <<"required", required(columns, options)>> >>)

-----------------------------------------------------------------------------
(* The columns schemas are synthesized for *)

\* a Column as columns.sql builds it; flag is the key of the primary key flag
Column(name, type, nullable, default, flag, primary, constraints) ==
  Obj(<< <<"name", Str(name)>>,
         <<"type", Str(type)>>,
         <<"nullable", nullable>>,
         <<"default", default>>,
         <<flag, primary>>,
         <<"constraints", constraints>> >>)

NoConstraints == Arr(<<>>)

\* column_default: no default, a sequence, other expressions
Defaults ==
  {Null, Str("nextval('test_id_seq'::regclass)"), Str("0"), Str("now()")}

\* the key of the primary key flag: as columns.sql and the fixtures of the
\* tests spell it, and as isReadOnly reads it
Flags == {"isPrimaryKey", "isprimarykey"}

\* the columns named id
IdColumns ==
  {Column("id", "integer", nullable, default, flag, primary, NoConstraints) :
     nullable \in {Bool("true"), Bool("false")}, default \in Defaults,
     flag \in Flags, primary \in {Bool("true"), Bool("false")}}

\* the fixtures forename and age of the tests
OtherColumns ==
  {Column("forename", "character varying", Bool("false"), Null, "isPrimaryKey",
          Bool("true"), Undefined),
   Column("age", "smallint", Bool("false"), Num("30"), "isPrimaryKey", Bool("false"),
          Arr(<< <<"0", Text(<<"(", "age", " > ", "16", ")">>)>> >>))}

\* a text of the shape (<col> = ANY (ARRAY[<literal><sep><literal>...])), each
\* literal a quoted value with a type cast
EnumText(col, values, cast, sep) ==
  LET literal(v) == <<"'", v, "'", "::", cast>>
  IN Text(<<"(", col, " = ANY (ARRAY", "[">>
          \o JoinTokens([i \in 1..Len(values) |-> literal(values[i])], <<sep>>)
          \o <<"]", ")", ")">>)

\* the constraint of the fixture rating
RatingCheck == EnumText("rating", <<"good", "average", "bad">>, "text", ", ")

\* the fixtures of the tests: id, forename, surname, age, gender, rating
Fixtures ==
  {Column("id", "integer", Bool("false"), Str("nextval('test_id_seq'::regclass)"),
          "isPrimaryKey", Bool("true"), Undefined),
   Column("surname", "character varying", Bool("false"), Null, "isPrimaryKey",
          Bool("true"), Undefined),
   Column("gender", "character", Bool("true"), Null, "isPrimaryKey", Bool("false"),
          Undefined),
   Column("rating", "character", Bool("true"), Null, "isPrimaryKey", Bool("false"),
          Arr(<< <<"0", RatingCheck>> >>))}
    \cup OtherColumns

\* the texts of CHECK constraints: enumerations written with ", " and with
\* "," between the literals, of one and of several literals, one with the
\* literal 'so, so', and a comparison
CheckTexts ==
  {RatingCheck,
   EnumText("rating", <<"good", "average", "bad">>, "text", ","),
   EnumText("rating", <<"poor">>, "text", ", "),
   Text(<<"(", "rating", " = ANY (ARRAY", "[", "'", "so", ", ", "so", "'", "::", "text",
          ", ", "'", "good", "'", "::", "text", "]", ")", ")">>),
   Text(<<"(", "rating", " <> ", "'", "none", "'", "::", "text", ")">>)}

\* column.constraints: absent, empty, or up to MaxConstraints entries, each
\* null or the text of a CHECK constraint
ConstraintLists ==
  LET entries == CheckTexts \cup {Null}
      lists == UNION {[1..n -> entries] : n \in 0..MaxConstraints}
  IN {Undefined} \cup {Arr([i \in 1..Len(l) |-> <<NumStr(i - 1), l[i]>>]) : l \in lists}

\* the column rating with every list of constraints
CheckedColumns ==
  {Column("rating", "character", Bool("true"), Null, "isPrimaryKey", Bool("false"), c) :
     c \in ConstraintLists}

\* the integer and decimal types of PostgreSQL
IntegerTypes == {"integer", "smallint", "bigint", "serial", "smallserial", "bigserial"}
DecimalTypes == {"numeric", "real", "double precision"}

\* a column of every numeric type, of some other types, and of a type the
\* lookup table does not hold
TypedColumns ==
  {Column("amount", type, Bool("true"), Null, "isPrimaryKey", Bool("false"), Undefined) :
     type \in IntegerTypes \cup DecimalTypes \cup {"text", "boolean", "date", "uuid"}}

ColumnLists ==
  {<<c>> : c \in IdColumns} \cup {<<c, d>> : c \in IdColumns, d \in OtherColumns}
    \cup (DistinctSeqs(Fixtures, MaxColumns) \ {<<>>})
    \cup {<<c>> : c \in CheckedColumns}
    \cup {<<c>> : c \in TypedColumns}

AllOptions ==
  {Obj(<<>>), Obj(<< <<"strictNumbers", Bool("true")>> >>),
   Obj(<< <<"strictNumbers", Bool("false")>> >>)}

-----------------------------------------------------------------------------
(* The state machine: a caller constructs a Query and hands it to the      *)
(* builder functions of its kind.  Provider.create, read, update, delete   *)
(* and count each call <builder function>(q).toParam(); toParam is a       *)
(* function of the builder returned, so the state keeps the builder.       *)

Init ==
  /\ engine \in Engines
  /\ q \in Queries
  /\ q0 = q
  /\ hist = <<>>
  /\ revision = "filter"
  /\ discovery = <<>>
  /\ catalog = <<>>
  /\ inspects = <<>>
  /\ discovered = NoPromise
  /\ tableColumns = <<>>
  /\ schemaOptions = Obj(<<>>)
  /\ document = Undefined
  /\ driver = <<>>
  /\ operation = NoOperation
  /\ core = NewCore
  /\ configures = <<>>

\* a compile call: the builder function called and the statement builder it
\* returned; the caller takes text and values from it with toParam
Compiled(op, sql) == [op |-> op, sql |-> sql]

\* queryBuilders.createQuery(q)
CompileCreate ==
  /\ q.kind = "Create"
  /\ Len(hist) < MaxCompiles
  /\ LET sorted == IF q.hasJoins THEN SortJoins(engine, q.joins) ELSE q.joins
     IN /\ q' = [q EXCEPT !.joins = sorted]
        /\ hist' = Append(hist, Compiled("createQuery", createQuery(q, sorted)))
  /\ UNCHANGED <<engine, q0, discoveryVars, schemaVars, providerVars, coreVars>>

\* queryBuilders.updateQuery(q)
CompileUpdate ==
  /\ q.kind = "Update"
  /\ Len(hist) < MaxCompiles
  /\ LET sorted == IF q.hasJoins THEN SortJoins(engine, q.joins) ELSE q.joins
     IN /\ q' = [q EXCEPT !.joins = sorted]
        /\ hist' = Append(hist, Compiled("updateQuery", updateQuery(q, sorted)))
  /\ UNCHANGED <<engine, q0, discoveryVars, schemaVars, providerVars, coreVars>>

\* queryBuilders.readQuery(q)
CompileRead ==
  /\ q.kind = "Read"
  /\ Len(hist) < MaxCompiles
  /\ hist' = Append(hist, Compiled("readQuery", readQuery(q)))
  /\ UNCHANGED <<engine, q, q0, discoveryVars, schemaVars, providerVars, coreVars>>

\* queryBuilders.countQuery(q)
CompileCount ==
  /\ q.kind = "Read"
  /\ Len(hist) < MaxCompiles
  /\ hist' = Append(hist, Compiled("countQuery", countQuery(q)))
  /\ UNCHANGED <<engine, q, q0, discoveryVars, schemaVars, providerVars, coreVars>>

\* queryBuilders.deleteQuery(q)
CompileDelete ==
  /\ q.kind = "Delete"
  /\ Len(hist) < MaxCompiles
  /\ hist' = Append(hist, Compiled("deleteQuery", deleteQuery(q)))
  /\ UNCHANGED <<engine, q, q0, discoveryVars, schemaVars, providerVars, coreVars>>

Next ==
  \/ CompileCreate
  \/ CompileUpdate
  \/ CompileRead
  \/ CompileCount
  \/ CompileDelete

Spec == Init /\ [][Next]_vars

-----------------------------------------------------------------------------
(* Discovery as a state machine: discover is called once on a provider;    *)
(* the queries it sends resolve or fail in any order, and each             *)
(* continuation runs when the promise it awaits settles.                   *)

DiscoveryInit ==
  /\ engine = "timsort"
  /\ q = Query("Read", "test")
  /\ q0 = q
  /\ hist = <<>>
  /\ revision \in Revisions
  /\ discovery \in ConfigLists
  /\ catalog \in Catalogs
  /\ inspects = <<>>
  /\ discovered = NoPromise
  /\ tableColumns = <<>>
  /\ schemaOptions = Obj(<<>>)
  /\ document = Undefined
  /\ driver = <<>>
  /\ operation = NoOperation
  /\ core = NewCore
  /\ configures = <<>>

\* PostgreSQL.discover(context)
Discover ==
  /\ discovered.state = "none"
  /\ inspects' = IF revision = "filter"
                 THEN [i \in 1..Len(discovery) |-> inspectConfig(discovery[i])]
                 ELSE <<inspectConfigs(discovery)>>
  /\ discovered' = discover(revision, inspects')
  /\ UNCHANGED <<revision, discovery, catalog, queryVars, schemaVars, providerVars, coreVars>>

\* revision "filter": sql.tables resolves and inspect goes on after its
\* first await: it filters the rows and sends one batch per table
TablesResolve(c) ==
  /\ revision = "filter"
  /\ inspects[c].tables.state = "pending"
  /\ LET call == inspects[c]
         tables == Resolved(TableRows(EntitiesOf(catalog, "table")))
         inScope == filterTablesByScope(call.configs[1], tables.value)
         batches == [i \in 1..Len(inScope.value) |->
                       [table |-> inScope.value[i], promise |-> Pending]]
     IN inspects' = [inspects EXCEPT ![c] =
          Call(call.configs, inScope.threw, tables, call.views, batches,
               inspectTables(inScope.threw, tables, batches))]
  /\ discovered' = discover(revision, inspects')
  /\ UNCHANGED <<revision, discovery, catalog, queryVars, schemaVars, providerVars, coreVars>>

\* revision "filter": the batch of a table resolves to the rows of has.sql,
\* belongsTo.sql and columns.sql for the table, and the async function
\* awaiting it returns the Source of the table
BatchResolves(c, b) ==
  /\ revision = "filter"
  /\ b \in 1..Len(inspects[c].batches)
  /\ inspects[c].batches[b].promise.state = "pending"
  /\ LET call == inspects[c]
         table == call.batches[b].table
         keys == KeysAmong(ForeignKeys, catalog)
         has == Has(keys, Get(table, "schema").s, Get(table, "name").s)
         belongsTo == BelongsTo(keys, Get(table, "schema").s, Get(table, "name").s)
         source == Source(Get(table, "name"), has, belongsTo)
         batches == [call.batches EXCEPT ![b].promise = Resolved(source)]
     IN inspects' = [inspects EXCEPT ![c] =
          Call(call.configs, call.threw, call.tables, call.views, batches,
               inspectTables(call.threw, call.tables, batches))]
  /\ discovered' = discover(revision, inspects')
  /\ UNCHANGED <<revision, discovery, catalog, queryVars, schemaVars, providerVars, coreVars>>

\* revision "filter": a query of the batch of a table fails
BatchFails(c, b) ==
  /\ revision = "filter"
  /\ b \in 1..Len(inspects[c].batches)
  /\ inspects[c].batches[b].promise.state = "pending"
  /\ LET call == inspects[c]
         batches == [call.batches EXCEPT ![b].promise = Rejected]
     IN inspects' = [inspects EXCEPT ![c] =
          Call(call.configs, call.threw, call.tables, call.views, batches,
               inspectTables(call.threw, call.tables, batches))]
  /\ discovered' = discover(revision, inspects')
  /\ UNCHANGED <<revision, discovery, catalog, queryVars, schemaVars, providerVars, coreVars>>

\* revision "conditions": the tables or the views query resolves to the
\* entities its WHERE clause selects; PostgreSQL runs it only when it parses
EntitiesResolve(c, type) ==
  /\ revision = "conditions"
  /\ inspects[c][type].state = "pending"
  /\ LET call == inspects[c]
         clause == conditions(type, call.configs).value
         rows == IF type = "tables"
                 THEN TableRows(Matching(EntitiesOf(catalog, "table"), clause))
                 ELSE ViewRows(Matching(EntitiesOf(catalog, "view"), clause))
         tables == IF type = "tables" THEN Resolved(rows) ELSE call.tables
         views == IF type = "views" THEN Resolved(rows) ELSE call.views
     IN /\ WellFormed(clause)
        /\ inspects' = [inspects EXCEPT ![c] =
             Call(call.configs, call.threw, tables, views, call.batches,
                  inspectEntities(call.threw, tables, views))]
  /\ discovered' = discover(revision, inspects')
  /\ UNCHANGED <<revision, discovery, catalog, queryVars, schemaVars, providerVars, coreVars>>

\* the tables or the views query fails: the database or the connection
\* fails, or (revision "conditions") the statement does not parse
QueryFails(c, type) ==
  /\ inspects[c][type].state = "pending"
  /\ LET call == inspects[c]
         tables == IF type = "tables" THEN Rejected ELSE call.tables
         views == IF type = "views" THEN Rejected ELSE call.views
     IN inspects' = [inspects EXCEPT ![c] =
          Call(call.configs, call.threw, tables, views, call.batches,
               IF revision = "filter"
               THEN inspectTables(call.threw, tables, call.batches)
               ELSE inspectEntities(call.threw, tables, views))]
  /\ discovered' = discover(revision, inspects')
  /\ UNCHANGED <<revision, discovery, catalog, queryVars, schemaVars, providerVars, coreVars>>

DiscoveryNext ==
  \/ Discover
  \/ \E c \in 1..Len(inspects) : TablesResolve(c)
  \/ \E c \in 1..Len(inspects) : \E b \in 1..Len(inspects[c].batches) : BatchResolves(c, b)
  \/ \E c \in 1..Len(inspects) : \E b \in 1..Len(inspects[c].batches) : BatchFails(c, b)
  \/ \E c \in 1..Len(inspects), type \in {"tables", "views"} : EntitiesResolve(c, type)
  \/ \E c \in 1..Len(inspects), type \in {"tables", "views"} : QueryFails(c, type)

DiscoverySpec == DiscoveryInit /\ [][DiscoveryNext]_vars

-----------------------------------------------------------------------------
(* Schema synthesis as a state machine: the columns of a table are read    *)
(* and its schema is synthesized from them.                                *)

SchemaInit ==
  /\ engine = "timsort"
  /\ q = Query("Read", "test")
  /\ q0 = q
  /\ hist = <<>>
  /\ revision = "filter"
  /\ discovery = <<>>
  /\ catalog = <<>>
  /\ inspects = <<>>
  /\ discovered = NoPromise
  /\ tableColumns \in ColumnLists
  /\ schemaOptions \in AllOptions
  /\ document = Undefined
  /\ driver = <<>>
  /\ operation = NoOperation
  /\ core = NewCore
  /\ configures = <<>>

\* schema(table, columns, options), as inspect calls it for a table
Synthesize ==
  /\ document = Undefined
  /\ driver = <<>>
  /\ operation = NoOperation
  /\ core = NewCore
  /\ configures = <<>>
  /\ document' = schema(TableRow(Catalog("public", "test", "table")),
                      tableColumns, schemaOptions)
  /\ UNCHANGED <<tableColumns, schemaOptions, queryVars, discoveryVars, providerVars, coreVars>>

SchemaNext == Synthesize

SchemaSpec == SchemaInit /\ [][SchemaNext]_vars

-----------------------------------------------------------------------------
(* The Provider's operations (src/provider/postgresql.ts): each compiles   *)
(* its Query and sends the statement on the context it was passed; the     *)
(* driver then resolves or fails the call.                                 *)

\* the contexts an operation may be passed: the one withContext obtains from
\* db.task, and the database object itself
Contexts == {"task", "db"}

\* the errors a driver call may fail with
DriverErrors == {"ECONNREFUSED", "unique_violation"}

\* the method of the context an operation calls
Method(name) ==
  CASE name \in {"create", "read", "update"} -> "manyOrNone"
    [] name = "delete" -> "result"
    [] name = "count" -> "one"

\* what the driver may resolve a call of a method with
DriverResults(method) ==
  CASE method = "manyOrNone" ->
         {Arr(<<>>), Arr(<< <<"0", Obj(<< <<"id", Num("1")>> >>)>> >>)}
    [] method = "result" -> {Obj(<< <<"rowCount", Num(n)>> >>) : n \in {"0", "2"}}
    [] method = "one" -> {Obj(<< <<"count", Str(n)>> >>) : n \in {"0", "2"}}

RejectedWith(error) == [state |-> "rejected", value |-> error]
Thrown(error) == [state |-> "thrown", value |-> error]

\* the statement builder an operation compiles its Query with
builderOf(name, query, sorted) ==
  CASE name = "create" -> createQuery(query, sorted)
    [] name = "update" -> updateQuery(query, sorted)
    [] name = "read" -> readQuery(query)
    [] name = "delete" -> deleteQuery(query)
    [] name = "count" -> countQuery(query)

\* the operations a Query of a kind is executed with
OperationsOf(kind) ==
  CASE kind = "Create" -> {"create"}
    [] kind = "Update" -> {"update"}
    [] kind = "Read" -> {"read", "count"}
    [] kind = "Delete" -> {"delete"}

\* an operation whose compilation threw: create, read and update are plain
\* functions and throw to their caller, delete and count are async functions
\* and return a rejected promise
compileFailed(name, error) ==
  IF name \in {"delete", "count"} THEN RejectedWith(error) ELSE Thrown(error)

\* what an operation returns once the promise of its driver call is as
\* given, were it to hide the driver's error behind one of its own
returned_Wrapped(name, promise) ==
  IF promise.state = "rejected" THEN RejectedWith("query failed")
  ELSE IF promise.state = "resolved"
  THEN CASE name = "delete" -> Resolved(Str(Get(promise.value, "rowCount").s))
         [] name = "count" -> Resolved(Get(promise.value, "count"))
         [] OTHER -> promise
  ELSE promise

\* what an operation returns once the promise of its driver call is as
\* given: create, read and update return that promise itself; delete awaits
\* it and returns result.rowCount.toString(), count result.count
returned(name, promise) ==
  IF promise.state = "resolved"
  THEN CASE name = "delete" -> Resolved(Str(Get(promise.value, "rowCount").s))
         [] name = "count" -> Resolved(Get(promise.value, "count"))
         [] OTHER -> promise
  ELSE promise

\* the Queries operations are called with here: writes without joins, reads
\* and deletes of at most one condition
ProviderQueries ==
  {x \in Queries : ~x.hasJoins /\ ~x.hasOrder /\ ~x.hasFields
                     /\ (x.hasConditions => Len(x.conditions) = 1
                                              /\ x.conditions[1] \in Terms)}

ProviderInit ==
  /\ engine = "timsort"
  /\ q \in ProviderQueries
  /\ q0 = q
  /\ hist = <<>>
  /\ revision = "filter"
  /\ discovery = <<>>
  /\ catalog = <<>>
  /\ inspects = <<>>
  /\ discovered = NoPromise
  /\ tableColumns = <<>>
  /\ schemaOptions = Obj(<<>>)
  /\ document = Undefined
  /\ driver = <<>>
  /\ operation = NoOperation
  /\ core = NewCore
  /\ configures = <<>>

\* provider.create / read / update / delete / count (context, q): the text
\* and values sent are those of toParam() of the statement recorded
Operate ==
  /\ operation = NoOperation
  /\ core = NewCore
  /\ configures = <<>>
  /\ \E name \in OperationsOf(q.kind), context \in Contexts :
       LET sorted == IF q.hasJoins /\ name \in {"create", "update"}
                     THEN SortJoins(engine, q.joins) ELSE q.joins
           sql == builderOf(name, q, sorted)
       IN /\ q' = [q EXCEPT !.joins = sorted]
          /\ hist' = Append(hist, Compiled(name \o "Query", sql))
          /\ IF toParamThrows(sql) # ""
             THEN /\ driver' = driver
                  /\ operation' = [name |-> name, context |-> context,
                                   returned |-> compileFailed(name, toParamThrows(sql))]
             ELSE /\ driver' = Append(driver, [context |-> context, method |-> Method(name),
                                               statement |-> sql, promise |-> Pending])
                  /\ operation' = [name |-> name, context |-> context,
                                   returned |-> returned(name, Pending)]
  /\ UNCHANGED <<engine, q0, discoveryVars, schemaVars, coreVars>>

\* the driver resolves the call
DriverResolves ==
  /\ driver # <<>>
  /\ driver[Len(driver)].promise.state = "pending"
  /\ \E result \in DriverResults(driver[Len(driver)].method) :
       /\ driver' = [driver EXCEPT ![Len(driver)].promise = Resolved(result)]
       /\ operation' = [operation EXCEPT
                          !.returned = returned(operation.name, Resolved(result))]
  /\ UNCHANGED <<queryVars, discoveryVars, schemaVars, coreVars>>

\* the driver fails the call
DriverFails ==
  /\ driver # <<>>
  /\ driver[Len(driver)].promise.state = "pending"
  /\ \E error \in DriverErrors :
       /\ driver' = [driver EXCEPT ![Len(driver)].promise = RejectedWith(error)]
       /\ operation' = [operation EXCEPT
                          !.returned = returned(operation.name, RejectedWith(error))]
  /\ UNCHANGED <<queryVars, discoveryVars, schemaVars, coreVars>>

ProviderNext ==
  \/ Operate
  \/ DriverResolves
  \/ DriverFails

ProviderSpec == ProviderInit /\ [][ProviderNext]_vars

-----------------------------------------------------------------------------
(* The Core (src/core.ts, src/provider.ts): configure() creates a Provider *)
(* for each entry of config.providers and discovers the Sources of each;   *)
(* the discoveries resolve or fail in any order.                           *)

MaxProviders == 2
MaxConfigures == 2

\* an entry of config.providers
ProviderConfig(id, driverName) == [id |-> id, driver |-> driverName]

\* the provider configurations of the model: two of the driver the Core
\* knows and one of a driver it does not
ProviderConfigs ==
  {ProviderConfig("a", "postgresql"), ProviderConfig("b", "postgresql"),
   ProviderConfig("c", "mysql")}

\* config.providers: up to MaxProviders entries
CoreConfigs == DistinctSeqs(ProviderConfigs, MaxProviders)

\* the array of the elements of a sequence
ArrayFrom(elements) == Arr([i \in 1..Len(elements) |-> <<NumStr(i - 1), elements[i]>>])

\* the Source of a table of a provider
SourceOf(id, table) == Obj(<< <<"name", Str(id \o "." \o table)>> >>)

\* what the discovery of a provider may resolve to: a list of Sources, or a
\* list of lists of Sources
DiscoveryResults(id) ==
  {ArrayFrom(<<SourceOf(id, "users")>>),
   ArrayFrom(<<ArrayFrom(<<SourceOf(id, "users")>>), ArrayFrom(<<SourceOf(id, "tasks")>>)>>)}

\* ramda's flatten: the elements of a list and of the lists in it, at any
\* depth, in order
RECURSIVE RamdaFlatten(_)
RamdaFlatten(list) ==
  Flatten([i \in 1..Len(list.kids) |->
             IF list.kids[i][2].t = "array" THEN RamdaFlatten(list.kids[i][2])
             ELSE <<list.kids[i][2]>>])

\* create(config) of provider.ts throws for a driver that is not postgresql
createThrows(config) == config.driver # "postgresql"

\* Promise.all(discoveries).then(flatten), were it to wait for every
\* discovery to settle and to take the results of those that resolved
createSources_Settled(discoveries) ==
  IF \E i \in 1..Len(discoveries) : ~Settled(discoveries[i]) THEN Pending
  ELSE Resolved(RamdaFlatten(ArrayFrom(
         Flatten([i \in 1..Len(discoveries) |->
                    IF discoveries[i].state = "resolved"
                    THEN <<discoveries[i].value>> ELSE <<>>]))))

\* Core._createSources: Promise.all(providers.map(discoverSources))
\* .then(flatten), given the promises of discoverSources
createSources(discoveries) ==
  LET all == PromiseAll(discoveries)
  IN IF all.state = "resolved" THEN Resolved(RamdaFlatten(ArrayFrom(all.value))) ELSE all

\* a configure call: the config given, the sources of the Core when it was
\* called, the promises of discoverSources and the promise it returned
Configured(config, before, discoveries, promise) ==
  [config |-> config, before |-> before, discoveries |-> discoveries, promise |-> promise]

\* this.sources = await ...: assigned once the promise has resolved
assign(sources, promise) ==
  IF promise.state = "resolved" THEN SetTo(promise.value) ELSE sources

CoreInit ==
  /\ engine = "timsort"
  /\ q = Query("Read", "test")
  /\ q0 = q
  /\ hist = <<>>
  /\ revision = "filter"
  /\ discovery = <<>>
  /\ catalog = <<>>
  /\ inspects = <<>>
  /\ discovered = NoPromise
  /\ tableColumns = <<>>
  /\ schemaOptions = Obj(<<>>)
  /\ document = Undefined
  /\ driver = <<>>
  /\ operation = NoOperation
  /\ core = NewCore
  /\ configures = <<>>

\* core.configure(config), called once the call before it has settled
Configure ==
  /\ Len(configures) < MaxConfigures
  /\ \A c \in 1..Len(configures) : Settled(configures[c].promise)
  /\ \E config \in CoreConfigs :
       IF \E i \in 1..Len(config) : createThrows(config[i])
       THEN /\ core' = [core EXCEPT !.configured = TRUE]
            /\ configures' = Append(configures,
                               Configured(config, core.sources, <<>>, Rejected))
       ELSE LET discoveries == [i \in 1..Len(config) |-> Pending]
                promise == createSources(discoveries)
            IN /\ core' = [core EXCEPT !.configured = TRUE,
                                       !.providers = SetTo(config),
                                       !.sources = assign(@, promise)]
               /\ configures' = Append(configures,
                                  Configured(config, core.sources, discoveries, promise))
  /\ UNCHANGED <<queryVars, discoveryVars, schemaVars, providerVars>>

\* the promise of discoverSources(provider) settles as given, and the
\* continuation of _createSources runs when Promise.all has settled with it
Settle(c, p, outcome) ==
  LET call == configures[c]
      discoveries == [call.discoveries EXCEPT ![p] = outcome]
      promise == IF call.promise.state = "pending"
                 THEN createSources(discoveries) ELSE call.promise
  IN /\ configures' = [configures EXCEPT ![c] =
                         Configured(call.config, call.before, discoveries, promise)]
     /\ core' = IF call.promise.state = "pending"
                THEN [core EXCEPT !.sources = assign(@, promise)]
                ELSE core

\* discoverSources(provider) resolves
DiscoveryResolves(c, p) ==
  /\ configures[c].discoveries[p].state = "pending"
  /\ \E result \in DiscoveryResults(configures[c].config[p].id) :
       Settle(c, p, Resolved(result))
  /\ UNCHANGED <<queryVars, discoveryVars, schemaVars, providerVars>>

\* discoverSources(provider) fails
DiscoveryFails(c, p) ==
  /\ configures[c].discoveries[p].state = "pending"
  /\ Settle(c, p, Rejected)
  /\ UNCHANGED <<queryVars, discoveryVars, schemaVars, providerVars>>

\* core.start(): returns at once without a config; hands this.sources on
Start ==
  /\ core.configured
  /\ ~core.started
  /\ core' = [core EXCEPT !.started = TRUE, !.seen = core.sources]
  /\ UNCHANGED <<configures, queryVars, discoveryVars, schemaVars, providerVars>>

CoreNext ==
  \/ Configure
  \/ \E c \in 1..Len(configures) : \E p \in 1..Len(configures[c].discoveries) :
       DiscoveryResolves(c, p)
  \/ \E c \in 1..Len(configures) : \E p \in 1..Len(configures[c].discoveries) :
       DiscoveryFails(c, p)
  \/ Start

CoreSpec == CoreInit /\ [][CoreNext]_vars

-----------------------------------------------------------------------------
(* What the claims speak of *)

WriteOps == {"createQuery", "updateQuery"}

Calls == 1..Len(hist)

\* text and values of the i-th compile call, as Provider takes them
Statement(i) == toParam(hist[i].sql)

Alias(join) == JoinStr(join.path, JOIN_MARKER)

\* the fields of a write statement and their values, as an object
Outgoing(sql) == Obj([k \in 1..Len(sql.fields) |-> <<sql.fields[k], sql.values[k]>>])

\* the joins of the constructed query (none when q.joins is undefined)
Joins0 == IF q0.hasJoins THEN q0.joins ELSE <<>>

\* the statement has a CTE of that alias
HasCTE(sql, alias) == \E c \in 1..Len(sql.with) : sql.with[c].alias = alias

\* every property of the object, at any depth, is a scalar or an object
\* that a join of the query names; path is the path of v
RECURSIVE ObjectsAllJoined(_, _)
ObjectsAllJoined(v, path) ==
  \A k \in 1..Len(v.kids) :
    LET p == Append(path, v.kids[k][1])
        kid == v.kids[k][2]
    IN \/ kid.t \in {"string", "number", "boolean"}
       \/ /\ kid.t = "object"
          /\ \E j \in 1..Len(Joins0) : Joins0[j].path = p
          /\ ObjectsAllJoined(kid, p)

\* every property of the object is a scalar or null
FlatData(v) == \A k \in 1..Len(v.kids) : v.kids[k][2].t \in {"string", "number", "boolean", "null"}

-----------------------------------------------------------------------------
(* The claims *)

\* C1: readQuery gives the WHERE clause exactly one term for each top-level
\* entry of q.conditions; a query with k top-level Term conditions compiles
\* to a WHERE clause of exactly k terms and exactly k bound condition values.
C1_OneWhereTermPerCondition ==
  \A i \in Calls :
    hist[i].op = "readQuery" /\ q0.hasConditions =>
      /\ Len(hist[i].sql.where) = Len(q0.conditions)
      /\ (\A k \in 1..Len(q0.conditions) : q0.conditions[k].t = "term") =>
           Len(WhereString(hist[i].sql).values) = Len(q0.conditions)

\* C2: compiling the very same Query object twice in succession with the
\* same builder function yields the same text and the same values.
C2_CompileTwiceSame ==
  \A i \in Calls :
    i + 1 \in Calls /\ hist[i].op = hist[i + 1].op => Statement(i) = Statement(i + 1)

\* C3: a compile call leaves the Query object as it was: data, conditions,
\* and the contents and element order of joins.
C3_QueryUnchanged ==
  hist # <<>> => q = q0

\* C4: in the statement of createQuery/updateQuery, the CTE of a join with a
\* shorter path comes before the CTE of a join with a longer path, whatever
\* the order of q.joins.
C4_ShallowCTEFirst ==
  \A i \in Calls :
    hist[i].op \in WriteOps /\ Statement(i).err = "" =>
      \A a, b \in 1..Len(hist[i].sql.with) :
        \A ja, jb \in 1..Len(Joins0) :
          /\ Alias(Joins0[ja]) = hist[i].sql.with[a].alias
          /\ Alias(Joins0[jb]) = hist[i].sql.with[b].alias
          /\ Len(Joins0[ja].path) < Len(Joins0[jb].path)
          => a < b

\* C5: for every join of a Create/Update whose value at join.path is an
\* object, the statement has a CTE named by the path that inserts the nested
\* fields into join.source returning join.to, ahead of the outer statement,
\* and the outer statement's value at the path is the sub-select of join.to
\* from that CTE.  Stated for the queries in which every object of the data
\* is named by a join, so that no value is left that SQL cannot bind.
C5_NestedCreateCTE ==
  \A i \in Calls :
    hist[i].op \in WriteOps /\ ObjectsAllJoined(q0.data, <<>>) =>
      \A j \in 1..Len(Joins0) :
        LET join == Joins0[j]
            nested == Path(join.path, q0.data)
            sql == hist[i].sql
        IN nested.t = "object" =>
             /\ Statement(i).err = ""
             /\ Statement(i).text[1] = "WITH"
             /\ \E c \in 1..Len(sql.with) :
                  /\ sql.with[c].alias = Alias(join)
                  /\ sql.with[c].table.verb = "INSERT"
                  /\ sql.with[c].table.table = join.source
                  /\ sql.with[c].table.fields = [k \in 1..Len(nested.kids) |-> nested.kids[k][1]]
                  /\ sql.with[c].table.returning = join.to
             /\ Path(join.path, Outgoing(sql)) = NestedSelect(Alias(join), join.to)

\* C6: for every join of a Create/Update whose value at join.path is a
\* number, a string, a boolean, null or absent, compilation raises no error,
\* the statement has no CTE for the join, and the value at the path reaches
\* the outer statement as given.  Stated for the queries whose data holds
\* scalars and null only, so that nothing but these joins decides the outcome.
C6_NonObjectJoinSkipped ==
  \A i \in Calls :
    hist[i].op \in WriteOps /\ FlatData(q0.data) =>
      \A j \in 1..Len(Joins0) :
        LET join == Joins0[j]
            nested == Path(join.path, q0.data)
        IN nested.t \in {"number", "string", "boolean", "null", "undefined"} =>
             /\ Statement(i).err = ""
             /\ ~HasCTE(hist[i].sql, Alias(join))
             /\ Path(join.path, Outgoing(hist[i].sql)) = nested

\* the table that a join of a Read is joined to: the alias of the path
\* without its last segment, the root source when that is empty
ParentOf(join) ==
  IF Len(join.path) = 1 THEN q0.source ELSE JoinStr(ButLast(join.path), JOIN_MARKER)

\* C7: in readQuery/countQuery every join is a LEFT JOIN of join.source
\* under the alias of its path, on <alias>.<to> = <parent>.<from>, the
\* parent being the root source name for a path of length 1.
C7_JoinOnParent ==
  \A i \in Calls :
    hist[i].op \in {"readQuery", "countQuery"} =>
      /\ Len(hist[i].sql.joins) = Len(Joins0)
      /\ \A j \in 1..Len(Joins0) :
           hist[i].sql.joins[j] =
             [table |-> Joins0[j].source, alias |-> Alias(Joins0[j]),
              condition |-> <<Alias(Joins0[j]) \o "." \o Joins0[j].to, "=",
                              ParentOf(Joins0[j]) \o "." \o Joins0[j].from>>]

\* the selected column that embeds the row of a join
Embedded(join) == "row_to_json(" \o Alias(join) \o ".*) AS " \o Alias(join)

\* how often a field is selected
Selected(sql, field) == Cardinality({k \in 1..Len(sql.selects) : sql.selects[k] = field})

\* the text of the statement from position n to the token FROM
RECURSIVE SelectList(_, _)
SelectList(text, n) ==
  IF n > Len(text) \/ text[n] = "FROM" THEN <<>>
  ELSE <<text[n]>> \o SelectList(text, n + 1)

\* C8: readQuery selects exactly one column row_to_json(<alias>.*) AS <alias>
\* for each join; countQuery has one LEFT JOIN for each join, as readQuery
\* has, and no such column: its select list is COUNT(*) alone.
C8_EmbedUnlessCounting ==
  \A i \in Calls :
    /\ hist[i].op = "readQuery" =>
         /\ \A j \in 1..Len(Joins0) : Selected(hist[i].sql, Embedded(Joins0[j])) = 1
         /\ Len(hist[i].sql.joins) = Len(Joins0)
    /\ hist[i].op = "countQuery" =>
         /\ \A j \in 1..Len(Joins0) : Selected(hist[i].sql, Embedded(Joins0[j])) = 0
         /\ SelectList(Statement(i).text, 2) = <<"COUNT(*)">>
         /\ Len(hist[i].sql.joins) = Len(Joins0)
         /\ hist[i].sql.joins = readQuery(q0).joins
         /\ JoinString(hist[i].sql) = JoinString(readQuery(q0))

\* C8, its case: a Read query with two joins has gone through readQuery and
\* through countQuery
C8_Witness ==
  /\ Len(Joins0) >= 2
  /\ \E i, k \in Calls : hist[i].op = "readQuery" /\ hist[k].op = "countQuery"

\* C9: the WHERE clause of countQuery(q) has the terms of the WHERE clause of
\* readQuery(q), in the same order, and binds the same condition values.
C9_CountWhereAsRead ==
  \A i, k \in Calls :
    hist[i].op = "readQuery" /\ hist[k].op = "countQuery" =>
      WhereString(hist[i].sql) = WhereString(hist[k].sql)

\* one pair of brackets encloses the whole of a text
Enclosed(text) ==
  /\ text # <<>>
  /\ text[1] = "("
  /\ text[Len(text)] = ")"
  /\ BracketsEnclose(text, 2, 1)

\* the text a condition compiles to, alone and as the child of a group
TextOf(condition, nested) ==
  ExpressionString(addQueryCondition(q0.source, condition), nested).text

\* a group and every group below it compiles to its children's texts, each
\* enclosed in brackets, joined by the group's operator
RECURSIVE Grouped(_)
Grouped(condition) ==
  condition.t \in {"and", "or"} =>
    /\ \A k \in 1..Len(condition.kids) : Enclosed(TextOf(condition.kids[k], TRUE))
    /\ TextOf(condition, FALSE) =
         JoinTokens([k \in 1..Len(condition.kids) |-> TextOf(condition.kids[k], TRUE)],
                    <<IF condition.t = "and" THEN "AND" ELSE "OR">>)
    /\ \A k \in 1..Len(condition.kids) : Grouped(condition.kids[k])

\* C10: an $and ($or) node compiles to its compiled children, each in
\* brackets of its own, joined by AND (OR), at every depth and for every
\* mixture of children, and the group is in brackets where it is used: the
\* WHERE clause is the top-level conditions, each in brackets, joined by AND.
C10_GroupsParenthesised ==
  \A i \in Calls :
    hist[i].op = "countQuery" /\ q0.hasConditions =>
      /\ \A k \in 1..Len(q0.conditions) : Grouped(q0.conditions[k])
      /\ WhereString(hist[i].sql).text =
           IF q0.conditions = <<>> THEN <<>>
           ELSE <<"WHERE">> \o JoinTokens(
                  [k \in 1..Len(q0.conditions) |->
                     <<"(">> \o TextOf(q0.conditions[k], FALSE) \o <<")">>], <<"AND">>)

\* the Term conditions of the query when its conditions are one Term
OneTerm == q0.hasConditions /\ Len(q0.conditions) = 1 /\ q0.conditions[1].t = "term"

\* C11: a Term {field, operator, value} compiles to
\* <source.name>.<field> <operator> <placeholder> bound to value, the
\* operator '=' when none is given and any operator that is given emitted
\* as it is, without error, whatever the operator string.
C11_OperatorVerbatim ==
  \A i \in Calls :
    hist[i].op \in {"countQuery", "deleteQuery"} /\ OneTerm =>
      LET term == q0.conditions[1]
          operator == IF term.op = NoOperator THEN "=" ELSE term.op
          where == <<"WHERE", "(", q0.source \o "." \o term.field, operator, "$1", ")">>
      IN /\ Statement(i).err = ""
         /\ Statement(i).text =
              (IF hist[i].op = "countQuery"
               THEN <<"SELECT", "COUNT(*)", "FROM", q0.source>>
               ELSE <<"DELETE", "FROM", q0.source>>) \o where
         /\ Statement(i).values = <<term.value>>

\* how many parameter characters a text has
RECURSIVE Placeholders(_)
Placeholders(text) ==
  IF text = <<>> THEN 0
  ELSE (IF Head(text) = "?" THEN 1 ELSE 0) + Placeholders(Tail(text))

\* the block of a write statement that holds the column values
FieldValueString(sql) ==
  IF sql.verb = "INSERT" THEN InsertFieldValueString(sql) ELSE SetFieldString(sql)

\* the indices of the fields of a write statement whose value is no sub-select
Bound(sql) == {k \in 1..Len(sql.fields) : sql.values[k].t # "select"}

\* the column values of a write statement are one placeholder for each field
\* that is no sub-select, bound to the properties of data in their order
OneParameterEach(sql, data) ==
  /\ Placeholders(FieldValueString(sql).text) = Cardinality(Bound(sql))
  /\ FieldValueString(sql).values =
       SelectSeq([k \in 1..Len(sql.fields) |-> Get(data, sql.fields[k])],
                 LAMBDA v : v \in {Get(data, sql.fields[k]) : k \in Bound(sql)})

\* C12: an array-valued field of q.data in a Create/Update is bound as one
\* parameter whose value is the whole array: the statement has as many
\* placeholders for column values as data has fields that are not replaced
\* by sub-selects, whatever the length of an array value.  The same of the
\* fields of a nested object in its CTE.
C12_ArrayOneParameter ==
  \A i \in Calls :
    hist[i].op \in WriteOps /\ Statement(i).err = "" =>
      /\ \A k \in Bound(hist[i].sql) :
           Get(q0.data, hist[i].sql.fields[k]).t # "select"
      /\ OneParameterEach(hist[i].sql, q0.data)
      /\ \A c \in 1..Len(hist[i].sql.with) : \A j \in 1..Len(Joins0) :
           /\ Alias(Joins0[j]) = hist[i].sql.with[c].alias
           /\ Path(Joins0[j].path, q0.data).t = "object"
           => OneParameterEach(hist[i].sql.with[c].table, Path(Joins0[j].path, q0.data))

\* C12, its case: a statement was compiled from data that holds an array of
\* MaxArrayLen elements and an array of none
C12_Witness ==
  \E i \in Calls :
    /\ hist[i].op \in WriteOps
    /\ Statement(i).err = ""
    /\ Get(q0.data, "tags") = ArrayOf(MaxArrayLen)
    /\ ArrayOf(MaxArrayLen) \in {Statement(i).values[k] : k \in 1..Len(Statement(i).values)}

\* the last n elements of a sequence
Last(seq, n) == SubSeq(seq, Len(seq) - n + 1, Len(seq))

\* C13: for a Read query with page {size, number}, size > 0 and number >= 1,
\* readQuery emits LIMIT size and OFFSET size * (number - 1); the offset is 0
\* for number 1 and never negative; without a page the statement has
\* neither LIMIT nor OFFSET.
C13_PaginationLaw ==
  \A i \in Calls :
    hist[i].op = "readQuery" =>
      LET text == Statement(i).text
          values == Statement(i).values
          n == Len(values)
      IN IF q0.hasPage /\ q0.page.size > 0 /\ q0.page.number >= 1
         THEN /\ Statement(i).err = ""
              /\ Last(text, 4) = <<"LIMIT", "$" \o NumStr(n - 1), "OFFSET", "$" \o NumStr(n)>>
              /\ values[n - 1] = Num(NumStr(q0.page.size))
              /\ \E offset \in 0..(MaxPageSize + 5) * (MaxPageNumber + 5) :
                   /\ values[n] = Num(NumStr(offset))
                   /\ offset = q0.page.size * (q0.page.number - 1)
                   /\ q0.page.number = 1 => offset = 0
         ELSE ~q0.hasPage =>
                \A k \in 1..Len(text) : text[k] \notin {"LIMIT", "OFFSET"}

\* C13, its case: a page after the first has gone through readQuery
C13_Witness ==
  \E i \in Calls :
    hist[i].op = "readQuery" /\ q0.hasPage /\ q0.page.number > 1 /\ q0.page.size > 1

\* the spellings of the two directions
AscSpellings == {"asc", "ASC", "Asc", "aSC"}
DescSpellings == {"desc", "DESC", "Desc", "dEsC"}

\* the ORDER BY item of an order entry
OrderItem(order) ==
  <<order.field, IF order.direction \in AscSpellings THEN "ASC" ELSE "DESC">>

\* sub is a run of consecutive elements of seq
IsInfix(sub, seq) ==
  \E k \in 0..(Len(seq) - Len(sub)) : SubSeq(seq, k + 1, k + Len(sub)) = sub

\* C14: each entry of q.order gives one ORDER BY item for its field, in list
\* order, ASC when the direction is 'asc' in any letter case and DESC when
\* it is 'desc' in any letter case.
C14_OrderDirection ==
  \A i \in Calls :
    hist[i].op = "readQuery" /\ q0.hasOrder
      /\ (\A k \in 1..Len(q0.order) : q0.order[k].direction \in AscSpellings \cup DescSpellings)
    => LET ret == Statement(i)
           text == ret.text
       IN /\ ret.err = ""
          /\ IsInfix(<<"ORDER BY">>
                       \o JoinTokens([k \in 1..Len(q0.order) |-> OrderItem(q0.order[k])], <<",">>),
                     text)
          /\ Cardinality({k \in 1..Len(text) : text[k] \in {"ASC", "DESC"}}) = Len(q0.order)

\* C14, its case: two order entries, one spelled in mixed case, have gone
\* through readQuery
C14_Witness ==
  \E i \in Calls :
    /\ hist[i].op = "readQuery"
    /\ q0.hasOrder
    /\ Len(q0.order) = 2
    /\ q0.order[1].direction = "dEsC"
    /\ q0.order[2].direction = "aSC"

\* the texts of the conditions of the query, none when it has no conditions
ConditionTexts ==
  [k \in 1..Len(q0.conditions) |-> TextOf(q0.conditions[k], FALSE)]

-----------------------------------------------------------------------------
(* Discovery scopes *)

\* a Scope as the configuration documents it: true, {only: [...]},
\* {except: [...]}, or no value at all
IsScope(scope) ==
  \/ scope = ScopeTrue
  \/ scope = Undefined
  \/ scope.t = "object" /\ (HasKey(scope, "only") \/ HasKey(scope, "except"))

\* what a Scope says of a name
InScope(scope, name) ==
  IF scope = ScopeTrue THEN TRUE
  ELSE IF scope = Undefined THEN FALSE
  ELSE IF HasKey(scope, "only") THEN Includes(Get(scope, "only"), name)
  ELSE ~Includes(Get(scope, "except"), name)

\* the tables of the catalog in the scope of a config, in catalog order
RECURSIVE TablesInScope(_, _)
TablesInScope(config, entities) ==
  IF entities = <<>> THEN <<>>
  ELSE LET e == Head(entities)
           rest == TablesInScope(config, Tail(entities))
       IN IF e.kind = "table" /\ InScope(config.schemas, e.schema)
                              /\ InScope(config.tables, e.name)
          THEN <<e>> \o rest
          ELSE rest

\* the table rows an inspect call has enumerated: the rows it sends a batch
\* for (revision "filter"), the rows of its tables query (revision
\* "conditions")
Enumerated(call) ==
  IF revision = "filter"
  THEN [i \in 1..Len(call.batches) |-> call.batches[i].table]
  ELSE call.tables.value

\* the tables query of an inspect call failed although PostgreSQL could
\* parse it: the database or the connection failed
TablesFault(call) ==
  /\ call.tables.state = "rejected"
  /\ revision = "conditions" => WellFormed(conditions("tables", call.configs).value)

\* C16: with a single discovery config whose schemas and tables are Scopes,
\* once the enumeration of the tables has settled without a failure of the
\* database, the tables enumerated are exactly the tables of the catalog
\* whose schema is in config.schemas and whose name is in config.tables
\* (true: every name, only: the names listed, except: the names not listed,
\* no scope: no name).
C16_EnumeratedIffInScope ==
  \A c \in 1..Len(inspects) :
    LET call == inspects[c]
        config == call.configs[1]
    IN (/\ Len(discovery) = 1
        /\ IsScope(config.schemas) /\ IsScope(config.tables)
        /\ Settled(call.tables)
        /\ ~TablesFault(call))
       => Enumerated(call) = TableRows(TablesInScope(config, catalog))

\* a config with a value that is no Scope in schemas, tables or views
HasInvalidScope(config) ==
  ~IsScope(config.schemas) \/ ~IsScope(config.tables) \/ ~IsScope(config.views)

\* C17: when the schemas, tables or views of any discovery config is no
\* Scope (neither true, {only: [...]}, {except: [...]} nor absent),
\* discovery never resolves to a Source list, whatever the other scopes and
\* configs are and whatever the catalog holds.
C17_InvalidScopeFails ==
  (\E i \in 1..Len(discovery) : HasInvalidScope(discovery[i]))
    => discovered.state # "resolved"

-----------------------------------------------------------------------------
(* The discovery barrier *)

\* the promises of the queries and batches discovery has sent
Awaited ==
  Flatten([c \in 1..Len(inspects) |->
             <<inspects[c].tables, inspects[c].views>> \o Promises(inspects[c].batches)])

\* the entities of a kind ("tables" or "views") in the scope of one of the
\* configs, in catalog order
RECURSIVE InSomeScope(_, _, _)
InSomeScope(configs, type, entities) ==
  IF entities = <<>> THEN <<>>
  ELSE LET e == Head(entities)
           rest == InSomeScope(configs, type, Tail(entities))
       IN IF \E i \in 1..Len(configs) :
               InScope(configs[i].schemas, e.schema) /\ InScope(configs[i][type], e.name)
          THEN <<e>> \o rest
          ELSE rest

\* the promise of discover is resolved only when every query and every
\* per-table batch discovery has sent has resolved; it holds no Source list
\* unless it is resolved; when a query or a batch has failed it is rejected:
\* at once in the revision with matchesScope, once both queries have
\* settled in the revision with scopeTerm
Barrier ==
  LET failed == \E i \in 1..Len(Awaited) : Awaited[i].state = "rejected"
      pending == \E i \in 1..Len(Awaited) : Awaited[i].state = "pending"
  IN /\ discovered.state = "resolved" => ~failed /\ ~pending
     /\ discovered.state # "resolved" => discovered.value = <<>>
     /\ (failed /\ (revision = "filter" \/ ~pending)) => discovered.state = "rejected"

\* C18: discovery is an all-or-nothing barrier (the promise of discover
\* resolves only after the enumeration and every per-table batch has
\* resolved, and a failure of any of them, in any interleaving, rejects it
\* without a Source list), and once resolved it holds exactly one Source per
\* table or view of the catalog that is in the scope of a config.
C18_AllOrNothing ==
  LET scoped == \A i \in 1..Len(discovery) : ~HasInvalidScope(discovery[i])
      entities == InSomeScope(discovery, "tables", EntitiesOf(catalog, "table"))
                    \o (IF revision = "filter" THEN <<>>
                        ELSE InSomeScope(discovery, "views", EntitiesOf(catalog, "view")))
  IN /\ Barrier
     /\ (discovered.state = "resolved" /\ scoped)
          => Len(discovered.value) = Len(entities)

\* C19: the Sources of the list discover resolves to have pairwise distinct
\* names, also when a table is in the scope of more than one config.
C19_SourceNamesDistinct ==
  discovered.state = "resolved"
    => \A i, j \in 1..Len(discovered.value) :
         i # j => discovered.value[i].name # discovered.value[j].name

-----------------------------------------------------------------------------
(* Schema synthesis *)

\* the column is flagged as a primary key, under either spelling of the key
IsPrimaryKey(column) ==
  Get(column, "isPrimaryKey") = Bool("true") \/ Get(column, "isprimarykey") = Bool("true")

\* a primary key that is not nullable and whose default is a string that
\* starts with 'nextval'
SequenceKey(column) ==
  /\ IsPrimaryKey(column)
  /\ Get(column, "nullable") = Bool("false")
  /\ Get(column, "default").t = "string"
  /\ StartsWithNextval(Get(column, "default").s)

\* C20: isReadOnly(column) is {readOnly: true} when the column is flagged as
\* a primary key, is not nullable and has a default that is a string
\* starting with 'nextval', and {} for every other column; the property
\* synthesized for a column has a readOnly attribute in the first case only.
C20_ReadOnlyIffSequenceKey ==
  \A i \in 1..Len(tableColumns) :
    LET column == tableColumns[i]
        synthesized == Get(Get(document, "properties"), Get(column, "name").s)
    IN /\ isReadOnly(column) = IF SequenceKey(column)
                               THEN Obj(<< <<"readOnly", Bool("true")>> >>)
                               ELSE Obj(<<>>)
       /\ document # Undefined => (HasKey(synthesized, "readOnly") <=> SequenceKey(column))

\* a column whose nullable is false and which has no default expression
MustBeGiven(column) ==
  Get(column, "nullable") = Bool("false") /\ Get(column, "default") = Null

\* the names of the columns of a list that must be given, in list order
RECURSIVE NamesToGive(_)
NamesToGive(cols) ==
  IF cols = <<>> THEN <<>>
  ELSE IF MustBeGiven(Head(cols))
  THEN <<Get(Head(cols), "name")>> \o NamesToGive(Tail(cols))
  ELSE NamesToGive(Tail(cols))

\* the elements of an array
Elements(array) == [i \in 1..Len(array.kids) |-> array.kids[i][2]]

\* C21: the required list of a synthesized Schema holds, in column order,
\* exactly the names of the columns whose nullable is false and which have
\* no default; a nullable column and a column with a default are not in it.
C21_RequiredColumns ==
  document # Undefined
    => Elements(Get(document, "required")) = NamesToGive(tableColumns)

\* C21, its case: a Schema synthesized from three columns, two of them
\* required, one not
C21_Witness ==
  /\ document # Undefined
  /\ Len(tableColumns) = 3
  /\ Len(Get(document, "required").kids) = 2

\* the text has the shape (<col> = ANY (ARRAY[<literal>, ...]))
IsEnumCheck(constraint) ==
  LET tokens == constraint.kids
  IN /\ constraint.t = "string"
     /\ Len(tokens) >= 7
     /\ tokens[1] = "(" /\ tokens[3] = " = ANY (ARRAY" /\ tokens[4] = "["
     /\ SubSeq(tokens, Len(tokens) - 2, Len(tokens)) = <<"]", ")", ")">>

\* the literals of such a text in their order, each without its quotes and
\* its type cast: a literal runs from a quote to the next quote that "::"
\* follows
RECURSIVE Literals(_)
Literals(tokens) ==
  LET closing == {k \in 2..Len(tokens) - 1 : tokens[k] = "'" /\ tokens[k + 1] = "::"}
      k == CHOOSE n \in closing : \A m \in closing : n <= m
  IN IF tokens = <<>> THEN <<>>
     ELSE IF tokens[1] # "'" \/ closing = {} THEN Literals(Tail(tokens))
     ELSE <<Text(SubSeq(tokens, 2, k - 1))>> \o Literals(SubSeq(tokens, k + 2, Len(tokens)))

\* the literals of the constraints of a column that are enumerations, in
\* constraint order
AllowedValues(column) ==
  LET constraints == Get(column, "constraints")
  IN IF constraints.t # "array" THEN <<>>
     ELSE Flatten([i \in 1..Len(constraints.kids) |->
                     IF IsEnumCheck(constraints.kids[i][2])
                     THEN Literals(constraints.kids[i][2].kids)
                     ELSE <<>>])

\* the column has a constraint that is an enumeration
HasEnumCheck(column) ==
  LET constraints == Get(column, "constraints")
  IN /\ constraints.t = "array"
     /\ \E i \in 1..Len(constraints.kids) : IsEnumCheck(constraints.kids[i][2])

\* the property synthesized for a column
Synthesized(column) == Get(Get(document, "properties"), Get(column, "name").s)

\* C22: for a column with a constraint of the shape
\* (<col> = ANY (ARRAY[<literal>, ...])), isEnumConstraint returns
\* {enum: [...]} with the literals in their order, each without its quotes
\* and its type cast, whether the literals are separated by ", " or by ",";
\* the literals of several such constraints are concatenated in constraint
\* order; the synthesized property carries the same enum.
C22_EnumLiterals ==
  \A i \in 1..Len(tableColumns) :
    LET column == tableColumns[i]
    IN HasEnumCheck(column)
         => /\ Elements(Get(isEnumConstraint(column), "enum")) = AllowedValues(column)
            /\ document # Undefined
                 => Elements(Get(Synthesized(column), "enum")) = AllowedValues(column)

\* C23: for a column none of whose constraints is an enumeration (it has
\* no constraints, only null constraints, or only constraints of another
\* shape), isEnumConstraint returns {} and the synthesized property has no
\* enum attribute, not even an empty one.
C23_NoEnumWithoutMatch ==
  \A i \in 1..Len(tableColumns) :
    LET column == tableColumns[i]
    IN ~HasEnumCheck(column)
         => /\ isEnumConstraint(column) = Obj(<<>>)
            /\ document # Undefined => ~HasKey(Synthesized(column), "enum")

\* {oneOf: [{type: 'number'}, pattern]}
NumberOr(pattern) ==
  Obj(<< <<"oneOf", Arr(<< <<"0", TYPE_NUMBER>>, <<"1", pattern>> >>)>> >>)

\* columnType maps the columns of the given types to the plain type number
\* when options.strictNumbers is set, and otherwise to a union of number and
\* a string with a pattern of digits (integer types) or of a decimal
\* (decimal types); the synthesized property carries the same attributes
NumbersMapped(types) ==
  \A i \in 1..Len(tableColumns) :
    LET column == tableColumns[i]
        type == Get(column, "type").s
        expected == IF StrictNumbers(schemaOptions) THEN TYPE_NUMBER
                    ELSE IF type \in IntegerTypes THEN NumberOr(TYPE_STRING_INTEGER)
                    ELSE NumberOr(TYPE_STRING_DECIMAL)
    IN type \in types
         => /\ columnType(column, schemaOptions) = expected
            /\ document # Undefined
                 => \A key \in {"type", "oneOf", "pattern"} :
                      Get(Synthesized(column), key) = Get(expected, key)

BigNumbersAreStrings ==
  \A i \in 1..Len(tableColumns) :
    Get(tableColumns[i], "type").s \in {"bigint", "bigserial"}
      => columnType(tableColumns[i], schemaOptions) = TYPE_STRING_INTEGER

ReadOnly == Obj(<< <<"readOnly", Bool("true")>> >>)

\* C30: a column for which isReadOnly yields {readOnly: true} is not
\* required, and in a synthesized Schema no property with readOnly: true is
\* listed in required.
C30_ReadOnlyNotRequired ==
  /\ \A i \in 1..Len(tableColumns) :
       isReadOnly(tableColumns[i]) = ReadOnly => ~isRequired(tableColumns[i])
  /\ document # Undefined
       => \A i \in 1..Len(Get(document, "required").kids) :
            LET name == Get(document, "required").kids[i][2].s
            IN Get(Get(Get(document, "properties"), name), "readOnly") # Bool("true")

\* C30, its case: a Schema has been synthesized with a read-only property
C30_Witness ==
  /\ document # Undefined
  /\ \E i \in 1..Len(tableColumns) :
       /\ isReadOnly(tableColumns[i]) = ReadOnly
       /\ Get(Synthesized(tableColumns[i]), "readOnly") = Bool("true")

(* C25: the driver calls of a Provider operation *)

\* the operation called compiled its Query as the builder function does
CompiledByOperation ==
  builderOf(operation.name, q0,
            IF q0.hasJoins /\ operation.name \in {"create", "update"}
            THEN SortJoins(engine, q0.joins) ELSE q0.joins)

\* one driver call was issued, on the context the operation was passed and
\* with the compiled text and values
OneCallAsCompiled ==
  /\ Len(driver) = 1
  /\ driver[1].context = operation.context
  /\ driver[1].method = Method(operation.name)
  /\ toParam(driver[1].statement) = toParam(CompiledByOperation)

\* a failed driver call fails the operation with the same error
FailsWithSameError ==
  \A i \in 1..Len(driver) :
    driver[i].promise.state = "rejected"
      => /\ operation.returned.state = "rejected"
         /\ operation.returned.value = driver[i].promise.value
         /\ operation.returned.value \in DriverErrors

\* C25: every Provider operation called issues exactly one driver call, on
\* the context it was passed and with the compiled text and values, and when
\* that call fails the operation fails with the same error and issues no
\* further call.
C25_ExactlyOneCall ==
  operation # NoOperation => OneCallAsCompiled /\ FailsWithSameError

\* C25, amended: an operation whose Query compiles issues exactly one driver
\* call, on the context it was passed and with the compiled text and values,
\* and when that call fails the operation fails with the same error and
\* issues no further call; an operation whose compilation throws issues no
\* driver call and fails with the error of the compilation.
C25_OneCallWhenCompiled ==
  operation # NoOperation =>
    IF toParam(CompiledByOperation).err = ""
    THEN OneCallAsCompiled /\ FailsWithSameError
    ELSE /\ driver = <<>>
         /\ operation.returned.state \in {"thrown", "rejected"}
         /\ operation.returned.value = toParam(CompiledByOperation).err

\* a delete whose driver call failed, and a count whose driver call failed
C25_Witness ==
  /\ operation.name \in {"delete", "count"}
  /\ Len(driver) = 1
  /\ driver[1].promise.state = "rejected"
  /\ driver[1].context = "task"

(* C26: a nested join below a nested join *)

\* join B's path is join A's path followed by one more segment
OneBelow(A, B) ==
  /\ Len(B.path) = Len(A.path) + 1
  /\ SubSeq(B.path, 1, Len(A.path)) = A.path

\* C26: when a Create/Update has a join A with path p and a join B with path
\* p followed by one more segment k, and the values at both paths in q.data
\* are objects, the statement compiles, the object at B's path is none of its
\* bound values, and A's CTE takes column k from the sub-select of B.to on
\* B's CTE.
C26_NestedBelowNested ==
  \A i \in Calls :
    hist[i].op \in WriteOps =>
      \A a, b \in 1..Len(Joins0) :
        LET A == Joins0[a]
            B == Joins0[b]
            sql == hist[i].sql
            k == B.path[Len(B.path)]
        IN /\ OneBelow(A, B)
           /\ Path(A.path, q0.data).t = "object"
           /\ Path(B.path, q0.data).t = "object"
           => /\ Statement(i).err = ""
              /\ \A v \in 1..Len(Statement(i).values) :
                   Statement(i).values[v] # Path(B.path, q0.data)
              /\ \E c \in 1..Len(sql.with) :
                   /\ sql.with[c].alias = Alias(A)
                   /\ Get(Outgoing(sql.with[c].table), k) = NestedSelect(Alias(B), B.to)

(* C27: placeholders and parameters *)

\* the values of a condition tree, depth-first and left to right: the value
\* of a Term, the values of a $raw
RECURSIVE ConditionValues(_)
ConditionValues(condition) ==
  IF condition.t = "term" THEN <<condition.value>>
  ELSE IF condition.t = "raw" THEN condition.vals
  ELSE Flatten([k \in 1..Len(condition.kids) |-> ConditionValues(condition.kids[k])])

\* the values of the properties of an object, in key order, without those at
\* which a join of the query puts a sub-select (the objects and arrays that
\* a join names); path is the path of the object
ColumnValues(object, path) ==
  LET joined(k) == /\ object.kids[k][2].t \in {"object", "array"}
                   /\ \E j \in 1..Len(Joins0) : Joins0[j].path = Append(path, object.kids[k][1])
      keys == SelectSeq([k \in 1..Len(object.kids) |-> k], LAMBDA k : ~joined(k))
  IN [n \in 1..Len(keys) |-> object.kids[keys[n]][2]]

\* the values of the CTE inserts of a write statement, in CTE order
CTEValues(sql) ==
  Flatten([c \in 1..Len(sql.with) |->
             LET join == Joins0[CHOOSE j \in 1..Len(Joins0) :
                                  Alias(Joins0[j]) = sql.with[c].alias]
             IN ColumnValues(Path(join.path, q0.data), join.path)])

\* the placeholders of a text, in order of appearance
PlaceholdersOf(text) ==
  SelectSeq(text, LAMBDA token : \E n \in 1..Len(text) : token = "$" \o NumStr(n))

\* C27: in every compiled statement the placeholders are $1..$n in order of
\* appearance, n is the length of the params list, and the params are the
\* values of the CTE inserts in CTE order, then the column values of the
\* outer INSERT/UPDATE in data-key order, then the condition values in
\* depth-first left-to-right order of the condition tree (and after them
\* the LIMIT and OFFSET of a page, which the statement binds as well).
C27_PlaceholdersAndParams ==
  \A i \in Calls :
    Statement(i).err = "" =>
      LET sql == hist[i].sql
          st == Statement(i)
          columns == IF hist[i].op \in WriteOps
                     THEN CTEValues(sql) \o ColumnValues(q0.data, <<>>)
                     ELSE <<>>
          bound == IF q0.hasConditions /\ hist[i].op # "createQuery"
                        THEN Flatten([k \in 1..Len(q0.conditions) |->
                                        ConditionValues(q0.conditions[k])])
                        ELSE <<>>
      IN /\ PlaceholdersOf(st.text) = [n \in 1..Len(st.values) |-> "$" \o NumStr(n)]
         /\ st.values = columns \o bound \o sql.limit \o sql.offset

(* C28: relationships *)

\* the table rows discovery has enumerated
EnumeratedRows == Flatten([c \in 1..Len(inspects) |-> Enumerated(inspects[c])])

\* C28: once discovery has resolved, every table it enumerated has a Source
\* in the list whose has and belongsTo lists hold one Relationship for each
\* foreign key the catalog has for the table in that direction, and no
\* other.
C28_RelationshipsCarried ==
  discovered.state = "resolved" =>
    \A r \in 1..Len(EnumeratedRows) :
      LET schemaName == Get(EnumeratedRows[r], "schema").s
          name == Get(EnumeratedRows[r], "name").s
          keys == KeysAmong(ForeignKeys, catalog)
      IN \E k \in 1..Len(discovered.value) :
           /\ discovered.value[k].has = Has(keys, schemaName, name)
           /\ discovered.value[k].belongsTo = BelongsTo(keys, schemaName, name)

(* C29: the catalog of the Core *)

\* the flattened result of the discovery of every provider of a configure
\* call, all of them resolved
CompleteCatalog(call) ==
  RamdaFlatten(ArrayFrom(Flatten(
    [p \in 1..Len(call.discoveries) |-> RamdaFlatten(call.discoveries[p].value)])))

\* the sources are those of a configure call that resolved, all of its
\* discoveries having resolved
FromCompleteDiscovery(sources) ==
  \E c \in 1..Len(configures) :
    /\ configures[c].promise.state = "resolved"
    /\ Len(configures[c].discoveries) = Len(configures[c].config)
    /\ \A p \in 1..Len(configures[c].discoveries) :
         configures[c].discoveries[p].state = "resolved"
    /\ sources = CompleteCatalog(configures[c])

\* C29: Core.sources, and what start() is handed, is undefined or the
\* complete flattened result of the discovery of all providers of a
\* configure call; a configure call one of whose discoveries has failed is
\* rejected, and while it is the last call the sources are those the Core
\* had before it.
C29_CatalogAtomic ==
  /\ core.sources.defined => FromCompleteDiscovery(core.sources.value)
  /\ core.seen.defined => FromCompleteDiscovery(core.seen.value)
  /\ \A c \in 1..Len(configures) :
       /\ (\E p \in 1..Len(configures[c].discoveries) :
             configures[c].discoveries[p].state = "rejected")
            => configures[c].promise.state = "rejected"
       /\ (configures[c].promise.state = "rejected" /\ c = Len(configures))
            => core.sources = configures[c].before

\* a second configure call was rejected with one discovery resolved and one
\* failed, after a first that resolved to Sources
C29_Witness ==
  /\ Len(configures) = 2
  /\ configures[1].promise.state = "resolved"
  /\ configures[1].promise.value # <<>>
  /\ configures[2].promise.state = "rejected"
  /\ \E p \in 1..Len(configures[2].discoveries) :
       configures[2].discoveries[p].state = "resolved"
  /\ core.sources.defined

=============================================================================
